---------------------------- MODULE Spec2Model ----------------------------
(***************************************************************************)
(* Verification model of the WIDIP MCP server governance core:             *)
(*   - secret partitioning          (src/utils/secrets.py)                 *)
(*   - SAFEGUARD gate and endpoints (src/mcp/server.py)                    *)
(*   - approval queue               (src/mcp/safeguard_queue.py)           *)
(*   - tool registry dispatch       (src/mcp/registry.py)                  *)
(***************************************************************************)
EXTENDS Integers, Sequences, FiniteSets, Bags, TLC

(***************************************************************************)
(* State.  The model holds several specifications, one per component; each *)
(* specification moves the variables of its component and leaves the       *)
(* others at their idle value.                                             *)
(***************************************************************************)
VARIABLES
    \* secret partitioning functions (SpecSecrets)
    sp_input,      \* the argument tree A
    sp_redacted,   \* redact_sensitive_fields(A), or "none" before the call
    sp_extracted,  \* extract_sensitive_fields(A), or "none" before the call
    sp_merged,     \* target after _merge_secrets, or "none" before the call
    \* SAFEGUARD gate as a function (SpecGate)
    g_enabled,     \* settings.safeguard_enabled
    g_tool,        \* tool_name of the last evaluation
    g_conf,        \* confidence of the last evaluation
    g_resp,        \* the SafeguardResponse returned
    \* MCP server: endpoints, approval queue, secret side-store (Spec)
    safeguard_enabled,  \* settings.safeguard_enabled
    jsonb_as_text,      \* the driver returns JSONB columns as JSON text
    approval,           \* the row of the record in table safeguard_approvals
    envelope,           \* the value at key widip:secret:approval:<id>
    now,                \* wall clock, in units of 5 minutes
    req,                \* the bag of HTTP requests in flight
    resp,               \* the HTTP response sent by the last step, if any
    handler_calls,      \* handler invocations made by executing the record
    submitted,          \* the arguments as submitted at creation (history)
    succeeded,          \* approve / reject calls that reported success (history)
    \* MCPClient.call of the workflow side (SpecClient)
    max_retries,        \* self.max_retries
    cl_pc,              \* "post", "sleep", "returned" or "raised"
    attempt,            \* the loop variable of call
    last_error,         \* the MCPError kept for the final raise, or NoException
    cl_response,        \* the answer to the last POST, or NoResponse
    cl_raised,          \* the exception call raised: its class and error_code
    cl_posts,           \* number of POST /mcp/call made (history)
    cl_sleeps,          \* the asyncio.sleep durations, in order (history)
    cl_only_failures,   \* every answer so far was a transport failure or a 5xx
    \* HealthCheckWorkflow and its Redis keys (SpecHealth)
    hc_now,             \* wall clock, in minutes
    health_status,      \* the value at key glpi_health_status, with its expiry
    alert_sent,         \* expiry of key glpi_down_alert_sent, or NoTime
    hc_runs,            \* the bag of executions of the workflow in flight
    hc_event,           \* what the last step emitted and wrote
    last_down_alert,    \* time of the last down alert of this outage (history)
    recoveries,         \* recovery alerts since the last down probe (history)
    slack_webhook_url,  \* settings.slack_webhook_url is set
    outage_alerted,     \* a down alert was posted, no recovery alert since (history)
    \* WorkflowBase.run (SpecRun)
    wf_workflow,        \* the subclass: how its overridable methods behave
    wf_pc,              \* the await run is at, "returned" or "escaped"
    wf_status,          \* self.status
    wf_error,           \* the error object of the except clause entered
    wf_cancelled,       \* wait_for cancelled execute
    on_success_calls,   \* invocations of on_success (history)
    on_error_calls,     \* invocations of on_error (history)
    on_error_arg,       \* class of the error on_error was last given (history)
    wf_tools_called,    \* len(ctx.tools_called)
    wf_result,          \* the dict run returned, or NoResult
    \* Settings.validate_security at startup (SpecStartup)
    settings,           \* the Settings the process starts with
    security_errors,    \* what validate_security returned, in order
    startup,            \* "pending", "raised" or "serving"
    \* ToolRegistry: register and execute (SpecRegister, SpecExecute)
    _tools,             \* self._tools: the dict, as its items in order
    reg_event,          \* the outcome of the last register call
    first_registered,   \* the tools first registered under a name (history)
    calls,              \* the bag of execute calls awaiting their handler
    exec_response,      \* the MCPResponse returned by the last step
    \* WorkflowContext.log_tool_call (SpecAudit)
    tools_called,       \* ctx.tools_called: the arguments of each audit entry
    \* overlapping runs of one workflow instance (SpecOverlap)
    _current_context,   \* self._current_context: a run's context or NoContext
    ov_pc,              \* per run: "idle", "running" or "done"
    ov_call,            \* per run: its call_mcp awaiting self.mcp.call
    ov_made,            \* per run: the call_mcp calls it has started (history)
    contexts,           \* per run: tools_called of the context it created
    \* RedisClient.acquire_lock / release_lock on one lock name (SpecLock)
    lock,               \* the key lock:<name>: NoLock, or its expiry and setter
    lk_now,             \* the clock of the lock, in units of the shortest TTL
    held,               \* per client: expiry of the lock it acquired and has
                        \* not released, or NoTime (history)
    lk_event,           \* the call made by the last step and its answer
    \* workflow-side SafeguardService on one request id (SpecService)
    sg_mcp,             \* self.mcp is configured
    sg_created,         \* create_request has returned the id (history)
    sg_request,         \* the value at key safeguard:request:<id>
    sg_pending,         \* the members of the set safeguard:pending
    sg_now,             \* the clock, in units of 12 hours
    sg_calls,           \* the bag of service calls in flight
    sg_event,           \* the call completed by the last step
    sg_executed,        \* executions of the tool of the request (history)
    sg_rejected         \* a reject call has returned its response (history)

sp_vars == <<sp_input, sp_redacted, sp_extracted, sp_merged>>

g_vars == <<g_enabled, g_tool, g_conf, g_resp>>

srv_vars == <<safeguard_enabled, jsonb_as_text, approval, envelope, now,
              req, resp, handler_calls, submitted, succeeded>>

cl_vars == <<max_retries, cl_pc, attempt, last_error, cl_response, cl_raised,
             cl_posts, cl_sleeps, cl_only_failures>>

hc_vars == <<hc_now, health_status, alert_sent, hc_runs, hc_event,
             last_down_alert, recoveries, slack_webhook_url, outage_alerted>>

wf_vars == <<wf_workflow, wf_pc, wf_status, wf_error, wf_cancelled,
             on_success_calls, on_error_calls, on_error_arg, wf_tools_called,
             wf_result>>

cfg_vars == <<settings, security_errors, startup>>

reg_vars == <<_tools, reg_event, first_registered, calls, exec_response>>

au_vars == <<tools_called>>

ov_vars == <<_current_context, ov_pc, ov_call, ov_made, contexts>>

lk_vars == <<lock, lk_now, held, lk_event>>

sg_vars == <<sg_mcp, sg_created, sg_request, sg_pending, sg_now, sg_calls,
             sg_event, sg_executed, sg_rejected>>

\* the variables outside each component
not_sp_vars == <<g_vars, srv_vars, cl_vars, hc_vars, wf_vars, cfg_vars,
                 reg_vars, au_vars, ov_vars, lk_vars, sg_vars>>
not_g_vars == <<sp_vars, srv_vars, cl_vars, hc_vars, wf_vars, cfg_vars,
                reg_vars, au_vars, ov_vars, lk_vars, sg_vars>>
not_srv_vars == <<sp_vars, g_vars, cl_vars, hc_vars, wf_vars, cfg_vars,
                  reg_vars, au_vars, ov_vars, lk_vars, sg_vars>>
not_cl_vars == <<sp_vars, g_vars, srv_vars, hc_vars, wf_vars, cfg_vars,
                 reg_vars, au_vars, ov_vars, lk_vars, sg_vars>>
not_hc_vars == <<sp_vars, g_vars, srv_vars, cl_vars, wf_vars, cfg_vars,
                 reg_vars, au_vars, ov_vars, lk_vars, sg_vars>>
not_wf_vars == <<sp_vars, g_vars, srv_vars, cl_vars, hc_vars, cfg_vars,
                 reg_vars, au_vars, ov_vars, lk_vars, sg_vars>>
not_cfg_vars == <<sp_vars, g_vars, srv_vars, cl_vars, hc_vars, wf_vars,
                  reg_vars, au_vars, ov_vars, lk_vars, sg_vars>>
not_reg_vars == <<sp_vars, g_vars, srv_vars, cl_vars, hc_vars, wf_vars,
                  cfg_vars, au_vars, ov_vars, lk_vars, sg_vars>>
not_au_vars == <<sp_vars, g_vars, srv_vars, cl_vars, hc_vars, wf_vars,
                 cfg_vars, reg_vars, ov_vars, lk_vars, sg_vars>>
not_ov_vars == <<sp_vars, g_vars, srv_vars, cl_vars, hc_vars, wf_vars,
                 cfg_vars, reg_vars, au_vars, lk_vars, sg_vars>>
not_lk_vars == <<sp_vars, g_vars, srv_vars, cl_vars, hc_vars, wf_vars,
                 cfg_vars, reg_vars, au_vars, ov_vars, sg_vars>>
not_sg_vars == <<sp_vars, g_vars, srv_vars, cl_vars, hc_vars, wf_vars,
                 cfg_vars, reg_vars, au_vars, ov_vars, lk_vars>>

vars == <<sp_vars, g_vars, srv_vars, cl_vars, hc_vars, wf_vars, cfg_vars,
          reg_vars, au_vars, ov_vars, lk_vars, sg_vars>>

(***************************************************************************)
(* Bounds of the model.                                                    *)
(***************************************************************************)
\* nesting depth of the generated argument trees
MaxDepth == 2
\* longest array inside a generated argument tree
MaxListLen == 2
\* HTTP requests served concurrently
MaxProcs == 2
\* last instant of the clock
MaxTime == 2
\* largest max_retries an MCPClient is built with
MaxRetries == 5
\* executions of one workflow in flight at once
MaxRuns == 2
\* last minute of the health check clock
MaxClock == 6
\* the count of recovery alerts stops here
MaxRecoveries == 2
\* most tool calls one execute logs in its context
MaxTools == 2
\* execute calls awaiting their handler at once
MaxCalls == 2
\* audit entries kept in one context
MaxEntries == 1
\* call_mcp calls one run makes
MaxCallsPerRun == 2
\* clients of one lock
MaxClients == 2
\* longest TTL a lock is acquired with
MaxLockTtl == 2
\* last instant of the clock of the lock
MaxLockTime == 4
\* calls of the SafeguardService in flight at once
MaxServiceCalls == 2
\* last instant of the clock of the SafeguardService
MaxServiceTime == 4

(***************************************************************************)
(* JSON argument trees.  A node is a string scalar, a map (dict) from keys *)
(* to nodes, or an array (list) of nodes.  Keys are character sequences so *)
(* that key.lower() and the substring test are computed as the code does.  *)
(***************************************************************************)
Str(s) == [t |-> "str", v |-> s]
Map(f) == [t |-> "map", v |-> f]
Lst(q) == [t |-> "list", v |-> q]

IsDict(n) == n.t = "map"
IsList(n) == n.t = "list"

EmptyDict == Map([k \in {} |-> Str("")])

\* dict[key] = value on a dict node (insert or overwrite)
DictSet(d, key, value) ==
    Map([k \in (DOMAIN d.v) \cup {key} |-> IF k = key THEN value ELSE d.v[k]])

\* Python truthiness of a dict: "if data" is false for the empty dict
Truthy(d) == DOMAIN d.v # {}

UPPERCASE == <<"A","B","C","D","E","F","G","H","I","J","K","L","M",
               "N","O","P","Q","R","S","T","U","V","W","X","Y","Z">>
LOWERCASE == <<"a","b","c","d","e","f","g","h","i","j","k","l","m",
               "n","o","p","q","r","s","t","u","v","w","x","y","z">>

LowerChar(c) ==
    IF \E i \in 1..26 : UPPERCASE[i] = c
    THEN LOWERCASE[CHOOSE i \in 1..26 : UPPERCASE[i] = c]
    ELSE c

\* str.lower()
Lower(key) == [i \in 1..Len(key) |-> LowerChar(key[i])]

\* "f in key" on strings: f is a contiguous substring of key
Contains(f, key) ==
    \E i \in 1..(Len(key) - Len(f) + 1) : SubSeq(key, i, i + Len(f) - 1) = f

SENSITIVE_FIELD_NAMES ==
    { <<"p","a","s","s","w","o","r","d">>,
      <<"n","e","w","_","p","a","s","s","w","o","r","d">>,
      <<"s","e","c","r","e","t">>,
      <<"t","o","k","e","n">>,
      <<"a","p","i","_","k","e","y">>,
      <<"a","p","i","k","e","y">>,
      <<"p","r","i","v","a","t","e","_","k","e","y">>,
      <<"c","r","e","d","e","n","t","i","a","l","s">>,
      <<"a","u","t","h">>,
      <<"a","u","t","h","o","r","i","z","a","t","i","o","n">>,
      <<"_","t","e","m","p","_","p","a","s","s","w","o","r","d">> }

REDACTED_VALUE == Str("[REDACTED]")

\* the test of secrets.py lines 70, 105 and 145
IsSensitiveKey(key) ==
    LET key_lower == Lower(key)
    IN  key_lower \in SENSITIVE_FIELD_NAMES
        \/ \E f \in SENSITIVE_FIELD_NAMES : Contains(f, key_lower)

RECURSIVE redact_sensitive_fields(_)
redact_sensitive_fields(data) ==
    IF ~Truthy(data) THEN data
    ELSE Map([key \in DOMAIN data.v |->
            LET value == data.v[key]
            IN  IF IsSensitiveKey(key) THEN REDACTED_VALUE
                ELSE IF IsDict(value) THEN redact_sensitive_fields(value)
                ELSE IF IsList(value)
                     THEN Lst([i \in 1..Len(value.v) |->
                                IF IsDict(value.v[i])
                                THEN redact_sensitive_fields(value.v[i])
                                ELSE value.v[i]])
                ELSE value])

RECURSIVE has_sensitive_fields(_)
has_sensitive_fields(data) ==
    /\ Truthy(data)
    /\ \E key \in DOMAIN data.v :
          LET value == data.v[key]
          IN  \/ IsSensitiveKey(key)
              \/ IsDict(value) /\ has_sensitive_fields(value)
              \/ IsList(value) /\ \E i \in 1..Len(value.v) :
                    IsDict(value.v[i]) /\ has_sensitive_fields(value.v[i])

\* The "cleaned" half of extract_sensitive_fields: no branch for lists.
RECURSIVE extract_cleaned(_)
extract_cleaned(data) ==
    IF ~Truthy(data) THEN data
    ELSE Map([key \in DOMAIN data.v |->
            LET value == data.v[key]
            IN  IF IsSensitiveKey(key) THEN REDACTED_VALUE
                ELSE IF IsDict(value) THEN extract_cleaned(value)
                ELSE value])

\* The "secrets_found" half of extract_sensitive_fields.
RECURSIVE extract_secrets(_)
extract_secrets(data) ==
    IF ~Truthy(data) THEN EmptyDict
    ELSE LET kept == { key \in DOMAIN data.v :
                         \/ IsSensitiveKey(key)
                         \/ /\ IsDict(data.v[key])
                            /\ Truthy(extract_secrets(data.v[key])) }
         IN  Map([key \in kept |->
                    IF IsSensitiveKey(key) THEN data.v[key]
                    ELSE extract_secrets(data.v[key])])

\* extract_sensitive_fields returns the pair (cleaned, secrets_found)
extract_sensitive_fields(data) ==
    [cleaned |-> extract_cleaned(data), secrets |-> extract_secrets(data)]

\* SafeguardQueue._merge_secrets: the in-place update of target, returned
\* as the new value of target.
RECURSIVE _merge_secrets(_, _)
_merge_secrets(target, secrets) ==
    Map([key \in (DOMAIN target.v) \cup (DOMAIN secrets.v) |->
            IF key \notin DOMAIN secrets.v THEN target.v[key]
            ELSE LET value == secrets.v[key]
                 IN  IF /\ IsDict(value)
                        /\ key \in DOMAIN target.v
                        /\ IsDict(target.v[key])
                     THEN _merge_secrets(target.v[key], value)
                     ELSE value])

(***************************************************************************)
(* Generated argument trees.                                               *)
(***************************************************************************)
K_user     == <<"u","s","e","r">>
K_New_Password == <<"N","e","w","_","P","a","s","s","w","o","r","d">>
K_config       == <<"c","f","g">>
K_items        == <<"i","t","e","m","s">>
K_credentials  == <<"c","r","e","d","e","n","t","i","a","l","s">>
K_Token        == <<"T","o","k","e","n">>

V_jdoe   == Str("jdoe")
V_secret == Str("S3cret!")

\* flat dicts over user / New_Password
BaseTrees ==
    { Map([k \in ks |-> IF k = K_user THEN V_jdoe ELSE V_secret]) :
        ks \in SUBSET {K_user, K_New_Password} }

\* arrays of length <= MaxListLen whose items are a scalar or the dict t
ListsOver(t) ==
    UNION { [1..n -> {V_jdoe, t}] : n \in 0..MaxListLen }

\* one more level of nesting around dict t
Wraps(t) ==
    { Map(K_config :> t), Map(K_credentials :> t),
      Map((K_config :> t) @@ (K_user :> V_jdoe)) }
    \cup { Map(K_items :> Lst(q)) : q \in ListsOver(t) }

RECURSIVE TreesOfDepth(_)
TreesOfDepth(d) ==
    IF d = 0 THEN BaseTrees
    ELSE LET inner == TreesOfDepth(d - 1)
         IN  inner \cup UNION { Wraps(t) : t \in inner }

ArgTrees == TreesOfDepth(MaxDepth)

(***************************************************************************)
(* Specification of the secret partitioning functions: the input tree is   *)
(* drawn at Init, each action applies one function of secrets.py or        *)
(* _merge_secrets to it.                                                   *)
(***************************************************************************)
NotComputed == [t |-> "none"]

\* the secrets component when another specification runs
SecretsIdle ==
    /\ sp_input = NotComputed
    /\ sp_redacted = NotComputed
    /\ sp_extracted = NotComputed
    /\ sp_merged = NotComputed

SecretsInit ==
    /\ sp_input \in ArgTrees
    /\ sp_redacted = NotComputed
    /\ sp_extracted = NotComputed
    /\ sp_merged = NotComputed

SecretsRedact ==
    /\ sp_redacted = NotComputed
    /\ sp_redacted' = redact_sensitive_fields(sp_input)
    /\ UNCHANGED <<sp_input, sp_extracted, sp_merged, not_sp_vars>>

SecretsExtract ==
    /\ sp_extracted = NotComputed
    /\ sp_extracted' = extract_sensitive_fields(sp_input)
    /\ UNCHANGED <<sp_input, sp_redacted, sp_merged, not_sp_vars>>

SecretsMerge ==
    /\ sp_redacted # NotComputed
    /\ sp_extracted # NotComputed
    /\ sp_merged = NotComputed
    /\ sp_merged' = _merge_secrets(sp_redacted, sp_extracted.secrets)
    /\ UNCHANGED <<sp_input, sp_redacted, sp_extracted, not_sp_vars>>

SecretsNext == SecretsRedact \/ SecretsExtract \/ SecretsMerge

\* C8: merging extract(A).secrets into redact(A) gives back A
C8_RoundTrip == sp_merged # NotComputed => sp_merged = sp_input


(***************************************************************************)
(* SAFEGUARD gate (server.py, config.py).  The tool names are one          *)
(* representative per level, a registered tool that config.py gives no     *)
(* level, and a name that is neither registered nor configured.            *)
(***************************************************************************)
L0_READ_ONLY == "L0"
L1_MINOR     == "L1"
L2_MODERATE  == "L2"
L3_SENSITIVE == "L3"
L4_FORBIDDEN == "L4"

TOOL_SECURITY_LEVELS ==
    [ glpi_get_ticket_details |-> L0_READ_ONLY,
      glpi_create_ticket      |-> L1_MINOR,
      ad_unlock_account       |-> L2_MODERATE,
      ad_reset_password       |-> L3_SENSITIVE,
      ad_create_user          |-> L4_FORBIDDEN ]

ConfiguredTools == DOMAIN TOOL_SECURITY_LEVELS

\* tools registered in the registry by src/tools/*.py
RegisteredTools == ConfiguredTools \cup {"glpi_create_user"}

ToolNames == RegisteredTools \cup {"unknown_tool"}

\* confidence is a percentage
Confidences == 0..100

Null == "null"

\* TOOL_SECURITY_LEVELS.get(tool_name): None when the name has no entry
LevelOrNone(tool_name) ==
    IF tool_name \in ConfiguredTools THEN TOOL_SECURITY_LEVELS[tool_name]
    ELSE Null

SafeguardResponse(allowed, level, requires_human) ==
    [allowed |-> allowed, level |-> level, requires_human |-> requires_human]

\* mutation of check_safeguard: the L4 branch is missing and L4 falls
\* through to an allowing default
check_safeguard_l4open(tool_name, confidence, enabled) ==
    IF ~enabled THEN SafeguardResponse(TRUE, L0_READ_ONLY, FALSE)
    ELSE LET level == IF tool_name \in ConfiguredTools
                      THEN TOOL_SECURITY_LEVELS[tool_name]
                      ELSE L0_READ_ONLY
         IN  CASE level = L0_READ_ONLY -> SafeguardResponse(TRUE, level, FALSE)
               [] level = L1_MINOR ->
                    IF confidence >= 80
                    THEN SafeguardResponse(TRUE, level, FALSE)
                    ELSE SafeguardResponse(FALSE, level, TRUE)
               [] level = L2_MODERATE -> SafeguardResponse(TRUE, level, FALSE)
               [] level = L3_SENSITIVE -> SafeguardResponse(FALSE, level, TRUE)
               [] OTHER -> SafeguardResponse(TRUE, level, FALSE)

\* check_safeguard(tool_name, confidence) with settings.safeguard_enabled
check_safeguard(tool_name, confidence, enabled) ==
    IF ~enabled THEN SafeguardResponse(TRUE, L0_READ_ONLY, FALSE)
    ELSE LET level == IF tool_name \in ConfiguredTools
                      THEN TOOL_SECURITY_LEVELS[tool_name]
                      ELSE L0_READ_ONLY
         IN  CASE level = L0_READ_ONLY -> SafeguardResponse(TRUE, level, FALSE)
               [] level = L1_MINOR ->
                    IF confidence >= 80
                    THEN SafeguardResponse(TRUE, level, FALSE)
                    ELSE SafeguardResponse(FALSE, level, TRUE)
               [] level = L2_MODERATE -> SafeguardResponse(TRUE, level, FALSE)
               [] level = L3_SENSITIVE -> SafeguardResponse(FALSE, level, TRUE)
               [] level = L4_FORBIDDEN -> SafeguardResponse(FALSE, level, TRUE)
               [] OTHER -> SafeguardResponse(FALSE, level, TRUE)

(***************************************************************************)
(* Specification of the gate as a pure function: the switch is drawn at    *)
(* Init and every step evaluates check_safeguard on one tool name and one  *)
(* confidence.                                                             *)
(***************************************************************************)

NoDecision == [allowed |-> FALSE, level |-> Null, requires_human |-> FALSE]

\* the gate component when another specification runs
GateIdle ==
    /\ g_enabled = TRUE
    /\ g_tool = Null
    /\ g_conf = 0
    /\ g_resp = NoDecision

GateInit ==
    /\ g_enabled \in BOOLEAN
    /\ g_tool = Null
    /\ g_conf = 0
    /\ g_resp = NoDecision

GateDecide ==
    \E tool_name \in ToolNames, confidence \in Confidences :
        /\ g_tool' = tool_name
        /\ g_conf' = confidence
        /\ g_resp' = check_safeguard(tool_name, confidence, g_enabled)
        /\ UNCHANGED <<g_enabled, not_g_vars>>

GateNext == GateDecide

\* C3: the gate allows exactly when SAFEGUARD is disabled, or the tool's
\* configured level is L0, or L1 with confidence >= 80, or L2, for every tool
\* name (a name without a configured level has none of these levels).
C3_GateDecision ==
    g_tool # Null =>
        LET lvl == LevelOrNone(g_tool)
        IN  g_resp.allowed <=>
                \/ ~g_enabled
                \/ lvl = L0_READ_ONLY
                \/ lvl = L1_MINOR /\ g_conf >= 80
                \/ lvl = L2_MODERATE

(***************************************************************************)
(* MCP server: the endpoints of server.py over the approval queue of       *)
(* safeguard_queue.py, the secret side-store of secrets.py and the         *)
(* dispatch of registry.py.  Each HTTP request is a coroutine; a request   *)
(* that awaits the database more than once is split at its awaits, so that *)
(* other requests interleave exactly where the event loop lets them.       *)
(* The model follows one approval record, the first one created: every     *)
(* statement of the queue addresses one row by its id, so requests on      *)
(* other records leave this one alone.  Requests that name its id before   *)
(* it is created are requests on an unknown id.                            *)
(* Time is counted in units of 5 minutes (300 seconds).                    *)
(***************************************************************************)
NoTime == -1

\* margin added to the envelope TTL: 300 seconds, one unit of time
SECRET_MARGIN == 1

\* MCPErrorCode
TOOL_NOT_FOUND == -32000
TOOL_EXECUTION_ERROR == -32001
INVALID_PARAMS == -32602

\* the code mcp_call_endpoint puts in a SAFEGUARD block
SAFEGUARD_BLOCK_CODE == -32001

\* MCPErrorCode.RATE_LIMIT_ERROR
RATE_LIMIT_ERROR == -32003

\* inputs of the requests
TtlChoices == {0, 1}
Approvers == {"alice", "bob"}
Comment == "checked"
HandlerOutcomes == {"ok", "raise"}

A_plain  == Map(K_user :> V_jdoe)
A_secret == Map((K_user :> V_jdoe) @@ (K_Token :> V_secret))
A_listed == Map(K_items :> Lst(<<Map(K_Token :> V_secret)>>))

\* argument trees submitted to POST /safeguard/request
ArgSamples == {A_plain, A_secret, A_listed}

\* argument tree sent to POST /mcp/call and POST /tools/{name}
CallArguments == A_plain

\* a JSONB value handed back by the driver as JSON text (a str)
JsonText(tree) == [t |-> "text", v |-> tree]

\* row["arguments"] as the driver returns it
ReadJsonb(tree) == IF jsonb_as_text THEN JsonText(tree) ELSE tree

\* approved_at and executed_at are NULL or written with NOW(); the model
\* keeps whether they are written
Written == "written"

NoRow == [status |-> "absent"]

NoEnvelope == [t |-> "none"]

NoResp ==
    [op |-> Null, tool |-> Null, conf |-> 0, code |-> 0,
     success |-> FALSE, allowed |-> TRUE, level |-> Null,
     requires_human |-> FALSE, error_code |-> 0, dispatched |-> FALSE,
     invoked |-> FALSE, error |-> Null]

NoReq ==
    [pc |-> "idle", tool |-> Null, args |-> NotComputed, expires |-> NoTime,
     approver |-> Null, error_code |-> 0, invoked |-> FALSE]

\* the requests in flight form a bag: the server holds at most MaxProcs of
\* them between two of their awaits
InFlight == BagToSet(req)
CanStart == BagCardinality(req) < MaxProcs
Start(r) == req (+) SetToBag({r})
Finish(r) == req (-) SetToBag({r})
Step(r, r2) == (req (-) SetToBag({r})) (+) SetToBag({r2})

\* ToolRegistry.execute: whether the handler ran and the error code of the
\* MCPResponse (0 for a success).  handler(**arguments) raises TypeError
\* before the call when arguments is not a mapping.
registry_execute(tool_name, arguments, outcome) ==
    IF tool_name \notin RegisteredTools
    THEN [invoked |-> FALSE, error |-> TOOL_NOT_FOUND]
    ELSE IF ~IsDict(arguments)
    THEN [invoked |-> FALSE, error |-> INVALID_PARAMS]
    ELSE IF outcome = "ok" THEN [invoked |-> TRUE, error |-> 0]
    ELSE [invoked |-> TRUE, error |-> TOOL_EXECUTION_ERROR]

\* one handler invocation made by POST /safeguard/execute for the record;
\* n numbers the invocations
HandlerCall(tool_name, arguments) ==
    [tool |-> tool_name, args |-> arguments,
     n |-> 1 + Cardinality(handler_calls)]

\* the queue, the side-store and the requests before the first request
QueueEmpty ==
    /\ approval = NoRow
    /\ envelope = NoEnvelope
    /\ now = 0
    /\ req = EmptyBag
    /\ resp = NoResp
    /\ handler_calls = {}
    /\ submitted = NotComputed
    /\ succeeded = {}

\* settings defaults: safeguard_enabled = True; the driver hands JSONB back
\* as text or decoded
ServerInit ==
    /\ safeguard_enabled = TRUE
    /\ jsonb_as_text \in BOOLEAN
    /\ QueueEmpty

\* the gate endpoints with the switch SAFEGUARD_ENABLED on or off
CallsInit ==
    /\ safeguard_enabled \in BOOLEAN
    /\ jsonb_as_text = FALSE
    /\ QueueEmpty

\* the server component when another specification runs
ServerIdle ==
    /\ safeguard_enabled = TRUE
    /\ jsonb_as_text = FALSE
    /\ QueueEmpty

\* the response of a gate endpoint that dispatched the tool
Dispatched(op, tool_name, confidence, gate, ex, code) ==
    [NoResp EXCEPT !.op = op, !.tool = tool_name, !.conf = confidence,
                   !.code = code, !.success = (ex.error = 0),
                   !.level = gate.level, !.error_code = ex.error,
                   !.dispatched = TRUE, !.invoked = ex.invoked]

\* the response of a gate endpoint that blocked the tool
Blocked(op, tool_name, confidence, gate, error_code) ==
    [NoResp EXCEPT !.op = op, !.tool = tool_name, !.conf = confidence,
                   !.code = 403, !.allowed = FALSE, !.level = gate.level,
                   !.requires_human = gate.requires_human,
                   !.error_code = error_code]

\* mutation of mcp_call_endpoint: the tool is dispatched whatever the gate says
mcp_call_endpoint_ungated(tool_name, confidence, outcome) ==
    LET gate == check_safeguard(tool_name, confidence, safeguard_enabled)
        ex == registry_execute(tool_name, CallArguments, outcome)
    IN  /\ resp' = Dispatched("call", tool_name, confidence, gate, ex, 200)
        /\ UNCHANGED <<safeguard_enabled, jsonb_as_text, approval,
                       envelope, now, req, handler_calls,
                       submitted, succeeded, not_srv_vars>>

\* POST /mcp/call with params {name, arguments, confidence}: gate, then
\* dispatch; the request awaits nothing but the handler
mcp_call_endpoint(tool_name, confidence, outcome) ==
    LET gate == check_safeguard(tool_name, confidence, safeguard_enabled)
        ex == registry_execute(tool_name, CallArguments, outcome)
    IN  /\ resp' = IF ~gate.allowed
                   THEN Blocked("call", tool_name, confidence, gate,
                                SAFEGUARD_BLOCK_CODE)
                   ELSE Dispatched("call", tool_name, confidence, gate, ex, 200)
        /\ UNCHANGED <<safeguard_enabled, jsonb_as_text, approval,
                       envelope, now, req, handler_calls,
                       submitted, succeeded, not_srv_vars>>

\* POST /tools/{tool_name} with _confidence in the body
execute_tool_direct(tool_name, confidence, outcome) ==
    LET gate == check_safeguard(tool_name, confidence, safeguard_enabled)
        ex == registry_execute(tool_name, CallArguments, outcome)
    IN  /\ resp' = IF ~gate.allowed
                   THEN Blocked("direct", tool_name, confidence, gate, 0)
                   ELSE Dispatched("direct", tool_name, confidence, gate, ex,
                                   IF ex.error = 0 THEN 200 ELSE 400)
        /\ UNCHANGED <<safeguard_enabled, jsonb_as_text, approval,
                       envelope, now, req, handler_calls,
                       submitted, succeeded, not_srv_vars>>

(***************************************************************************)
(* Approval queue.                                                         *)
(***************************************************************************)
NewRow(tool_name, arguments, security_level, created_at, expires_at) ==
    [status |-> "pending", tool_name |-> tool_name, arguments |-> arguments,
     security_level |-> security_level, created_at |-> created_at,
     expires_at |-> expires_at, approved_at |-> Null, approver |-> Null,
     approval_comment |-> Null, executed_at |-> Null,
     execution_result |-> Null, execution_error |-> Null]

Envelope(data, expires_at) ==
    [t |-> "envelope", data |-> data, expires_at |-> expires_at]

\* the response of an approval endpoint
QueueResp(op, code, success) ==
    [NoResp EXCEPT !.op = op, !.code = code, !.success = success]

\* mutation of create_approval_request: the endpoint lets every configured
\* level through to the queue
create_approval_request_anylevel(tool_name, arguments, ttl) ==
    LET level == LevelOrNone(tool_name)
        split == extract_sensitive_fields(arguments)
    IN  /\ CanStart
        /\ IF level = Null
           THEN /\ resp' = [NoResp EXCEPT
                              !.op = "request", !.tool = tool_name,
                              !.code = 400, !.allowed = FALSE,
                              !.level = IF level = Null THEN "unknown" ELSE level]
                /\ UNCHANGED <<envelope, submitted, req>>
           ELSE /\ submitted = NotComputed
                /\ submitted' = arguments
                /\ envelope' =
                      IF Truthy(split.secrets)
                      THEN Envelope(split.secrets, now + ttl + SECRET_MARGIN)
                      ELSE envelope
                /\ req' = Start([NoReq EXCEPT !.pc = "create_insert",
                                              !.tool = tool_name,
                                              !.args = split.cleaned,
                                              !.expires = now + ttl])
                /\ resp' = NoResp
        /\ UNCHANGED <<safeguard_enabled, jsonb_as_text, approval, now,
                       handler_calls, succeeded, not_srv_vars>>

\* POST /safeguard/request up to the INSERT: the level check of the endpoint,
\* then SafeguardQueue.create_approval_request: new id, expiration, split of
\* the arguments, envelope written when secrets were extracted.
create_approval_request(tool_name, arguments, ttl) ==
    LET level == LevelOrNone(tool_name)
        split == extract_sensitive_fields(arguments)
    IN  /\ CanStart
        /\ IF level # L3_SENSITIVE
           THEN /\ resp' = [NoResp EXCEPT
                              !.op = "request", !.tool = tool_name,
                              !.code = 400, !.allowed = FALSE,
                              !.level = IF level = Null THEN "unknown" ELSE level]
                /\ UNCHANGED <<envelope, submitted, req>>
           ELSE /\ submitted = NotComputed
                /\ submitted' = arguments
                /\ envelope' =
                      IF Truthy(split.secrets)
                      THEN Envelope(split.secrets, now + ttl + SECRET_MARGIN)
                      ELSE envelope
                /\ req' = Start([NoReq EXCEPT !.pc = "create_insert",
                                              !.tool = tool_name,
                                              !.args = split.cleaned,
                                              !.expires = now + ttl])
                /\ resp' = NoResp
        /\ UNCHANGED <<safeguard_enabled, jsonb_as_text, approval, now,
                       handler_calls, succeeded, not_srv_vars>>

\* the INSERT of SafeguardQueue.create_approval_request, with the level the
\* endpoint passed as security_level, and the 201 response
create_insert(r) ==
    /\ r.pc = "create_insert"
    /\ approval' = NewRow(r.tool, r.args, LevelOrNone(r.tool), now, r.expires)
    /\ req' = Finish(r)
    /\ resp' = [QueueResp("request", 201, TRUE) EXCEPT !.tool = r.tool]
    /\ UNCHANGED <<safeguard_enabled, jsonb_as_text, envelope, now,
                   handler_calls, submitted, succeeded, not_srv_vars>>

\* the failure SafeguardQueue.approve returns without writing, and its
\* "error" text: not found, or already processed
ApproveRefused ==
    [QueueResp("approve", 400, FALSE) EXCEPT
        !.error = IF approval = NoRow THEN "not_found" ELSE "already_processed"]

\* mutation of approve: the status of the row read is not looked at
approve_unchecked(approver) ==
    /\ CanStart
    /\ IF approval = NoRow
       THEN /\ resp' = ApproveRefused
            /\ UNCHANGED req
       ELSE /\ resp' = NoResp
            /\ req' = Start([NoReq EXCEPT
                                !.pc = IF approval.expires_at < now
                                       THEN "approve_expire"
                                       ELSE "approve_update",
                                !.approver = approver])
    /\ UNCHANGED <<safeguard_enabled, jsonb_as_text, approval, envelope, now,
                   handler_calls, submitted, succeeded, not_srv_vars>>

\* POST /safeguard/approve/{id}: the SELECT of SafeguardQueue.approve and the
\* checks made on the row it returned
approve(approver) ==
    /\ CanStart
    /\ IF approval = NoRow \/ approval.status # "pending"
       THEN /\ resp' = ApproveRefused
            /\ UNCHANGED req
       ELSE /\ resp' = NoResp
            /\ req' = Start([NoReq EXCEPT
                                !.pc = IF approval.expires_at < now
                                       THEN "approve_expire"
                                       ELSE "approve_update",
                                !.approver = approver])
    /\ UNCHANGED <<safeguard_enabled, jsonb_as_text, approval, envelope, now,
                   handler_calls, submitted, succeeded, not_srv_vars>>

\* mutation of approve_expire: the expired branch records the approver
approve_expire_stamped(r) ==
    /\ r.pc = "approve_expire"
    /\ approval' = [approval EXCEPT !.status = "expired",
                                    !.approver = r.approver]
    /\ req' = Finish(r)
    /\ resp' = [QueueResp("approve", 400, FALSE) EXCEPT !.error = "expired"]
    /\ UNCHANGED <<safeguard_enabled, jsonb_as_text, envelope, now,
                   handler_calls, submitted, succeeded, not_srv_vars>>

\* SafeguardQueue.approve, expired branch: UPDATE ... SET status = 'expired'
\* WHERE id = $1
approve_expire(r) ==
    /\ r.pc = "approve_expire"
    /\ approval' = [approval EXCEPT !.status = "expired"]
    /\ req' = Finish(r)
    /\ resp' = [QueueResp("approve", 400, FALSE) EXCEPT !.error = "expired"]
    /\ UNCHANGED <<safeguard_enabled, jsonb_as_text, envelope, now,
                   handler_calls, submitted, succeeded, not_srv_vars>>

\* SafeguardQueue.approve, last step: UPDATE ... SET status = 'approved',
\* approved_at = NOW(), approver, approval_comment WHERE id = $1
approve_update(r) ==
    /\ r.pc = "approve_update"
    /\ approval' = [approval EXCEPT !.status = "approved",
                                    !.approved_at = Written,
                                    !.approver = r.approver,
                                    !.approval_comment = Comment]
    /\ req' = Finish(r)
    /\ resp' = QueueResp("approve", 200, TRUE)
    /\ succeeded' = succeeded \cup {"approve"}
    /\ UNCHANGED <<safeguard_enabled, jsonb_as_text, envelope, now,
                   handler_calls, submitted, not_srv_vars>>

\* POST /safeguard/reject/{id}: one UPDATE ... WHERE id = $1 AND
\* status = 'pending'
reject(approver) ==
    LET hit == approval # NoRow /\ approval.status = "pending"
    IN  /\ CanStart
        /\ approval' =
              IF hit
              THEN [approval EXCEPT !.status = "rejected",
                                    !.approved_at = Written,
                                    !.approver = approver,
                                    !.approval_comment = Comment]
              ELSE approval
        /\ resp' = IF hit THEN QueueResp("reject", 200, TRUE)
                   ELSE QueueResp("reject", 400, FALSE)
        /\ succeeded' = IF hit THEN succeeded \cup {"reject"} ELSE succeeded
        /\ UNCHANGED <<safeguard_enabled, jsonb_as_text, envelope, now, req,
                       handler_calls, submitted, not_srv_vars>>

\* SafeguardQueue.expire_old_requests: UPDATE ... SET status = 'expired'
\* WHERE status = 'pending' AND expires_at < NOW()
expire_old_requests ==
    /\ approval' =
          IF /\ approval # NoRow
             /\ approval.status = "pending"
             /\ approval.expires_at < now
          THEN [approval EXCEPT !.status = "expired"]
          ELSE approval
    /\ resp' = NoResp
    /\ UNCHANGED <<safeguard_enabled, jsonb_as_text, envelope, now, req,
                   handler_calls, submitted, succeeded, not_srv_vars>>

\* mutation of execute_approved_action: the endpoint dispatches whatever the
\* status of the record
execute_approved_action_unchecked ==
    /\ CanStart
    /\ IF approval = NoRow
       THEN /\ resp' = QueueResp("execute", 404, FALSE)
            /\ UNCHANGED req
       ELSE /\ resp' = NoResp
            /\ req' = Start([NoReq EXCEPT
                                !.pc = "execute_dispatch",
                                !.tool = approval.tool_name,
                                !.args = ReadJsonb(approval.arguments)])
    /\ UNCHANGED <<safeguard_enabled, jsonb_as_text, approval, envelope, now,
                   handler_calls, submitted, succeeded, not_srv_vars>>

\* POST /safeguard/execute/{id}: get_approval_status and the status check;
\* the arguments dispatched are the column "arguments" of the row read
execute_approved_action ==
    /\ CanStart
    /\ IF approval = NoRow
       THEN /\ resp' = QueueResp("execute", 404, FALSE)
            /\ UNCHANGED req
       ELSE IF approval.status # "approved"
       THEN /\ resp' = QueueResp("execute", 400, FALSE)
            /\ UNCHANGED req
       ELSE /\ resp' = NoResp
            /\ req' = Start([NoReq EXCEPT
                                !.pc = "execute_dispatch",
                                !.tool = approval.tool_name,
                                !.args = ReadJsonb(approval.arguments)])
    /\ UNCHANGED <<safeguard_enabled, jsonb_as_text, approval, envelope, now,
                   handler_calls, submitted, succeeded, not_srv_vars>>

\* execute_approved_action: await tool_registry.execute(tool_name, arguments)
execute_dispatch(r, outcome) ==
    LET ex == registry_execute(r.tool, r.args, outcome)
    IN  /\ r.pc = "execute_dispatch"
        /\ handler_calls' =
              IF ex.invoked
              THEN handler_calls \cup {HandlerCall(r.tool, r.args)}
              ELSE handler_calls
        /\ req' = Step(r, [r EXCEPT !.pc = "execute_mark",
                                     !.args = NotComputed,
                                     !.error_code = ex.error,
                                     !.invoked = ex.invoked])
        /\ resp' = NoResp
        /\ UNCHANGED <<safeguard_enabled, jsonb_as_text, approval, envelope,
                       now, submitted, succeeded, not_srv_vars>>

\* SafeguardQueue.mark_executed: UPDATE ... SET status, executed_at = NOW(),
\* execution_result, execution_error WHERE id = $1; then the response
execute_mark(r) ==
    LET ok == r.error_code = 0
    IN  /\ r.pc = "execute_mark"
        /\ approval' =
              [approval EXCEPT
                  !.status = IF ok THEN "executed" ELSE "failed",
                  !.executed_at = Written,
                  !.execution_result = IF ok THEN "result" ELSE Null,
                  !.execution_error = IF ok THEN Null ELSE "error"]
        /\ req' = Finish(r)
        /\ resp' = [QueueResp("execute", IF ok THEN 200 ELSE 500, ok)
                      EXCEPT !.tool = r.tool, !.error_code = r.error_code,
                             !.dispatched = TRUE, !.invoked = r.invoked]
        /\ UNCHANGED <<safeguard_enabled, jsonb_as_text, envelope, now,
                       handler_calls, submitted, succeeded, not_srv_vars>>

\* One unit of time passes; the side-store drops the key when its TTL ran out.
Tick ==
    /\ now < MaxTime
    /\ now' = now + 1
    /\ envelope' =
          IF envelope # NoEnvelope /\ envelope.expires_at <= now + 1
          THEN NoEnvelope
          ELSE envelope
    /\ resp' = NoResp
    /\ UNCHANGED <<safeguard_enabled, jsonb_as_text, approval, req,
                   handler_calls, submitted, succeeded, not_srv_vars>>

\* Next to the queue the gate endpoints are called for the tools that the
\* gate sends to the queue or forbids (every tool and every confidence is
\* covered by CallsNext), with the lowest and the default confidence.
QueueTools == {t \in ConfiguredTools :
                  TOOL_SECURITY_LEVELS[t] \in {L3_SENSITIVE, L4_FORBIDDEN}}
QueueConfidences == {100}
\* request bodies sent to POST /safeguard/request: every sample for a tool
\* the queue accepts, one body for a tool it turns down
RequestArguments(tool_name) ==
    IF LevelOrNone(tool_name) = L3_SENSITIVE THEN ArgSamples ELSE {A_plain}
RequestTtls(tool_name) ==
    IF LevelOrNone(tool_name) = L3_SENSITIVE THEN TtlChoices ELSE {1}

ServerNext ==
    \/ \E tool_name \in QueueTools, confidence \in QueueConfidences,
          outcome \in HandlerOutcomes :
            mcp_call_endpoint(tool_name, confidence, outcome)
    \/ \E tool_name \in QueueTools, confidence \in QueueConfidences,
          outcome \in HandlerOutcomes :
            execute_tool_direct(tool_name, confidence, outcome)
    \/ \E tool_name \in ToolNames :
          \E arguments \in RequestArguments(tool_name),
             ttl \in RequestTtls(tool_name) :
                create_approval_request(tool_name, arguments, ttl)
    \/ \E r \in InFlight : create_insert(r)
    \/ \E approver \in Approvers : approve(approver)
    \/ \E r \in InFlight : approve_expire(r)
    \/ \E r \in InFlight : approve_update(r)
    \/ \E approver \in Approvers : reject(approver)
    \/ expire_old_requests
    \/ execute_approved_action
    \/ \E r \in InFlight, outcome \in HandlerOutcomes : execute_dispatch(r, outcome)
    \/ \E r \in InFlight : execute_mark(r)
    \/ Tick

\* confidences sent to the gate endpoints: the ends of the range and the
\* values around the L1 threshold
CallConfidences == {0, 50, 79, 80, 81, 100}

\* the two gate endpoints alone
CallsNext ==
    \/ \E tool_name \in ToolNames, confidence \in CallConfidences,
          outcome \in HandlerOutcomes :
            mcp_call_endpoint(tool_name, confidence, outcome)
    \/ \E tool_name \in ToolNames, confidence \in CallConfidences,
          outcome \in HandlerOutcomes :
            execute_tool_direct(tool_name, confidence, outcome)

(***************************************************************************)
(* Properties of the server.                                               *)
(***************************************************************************)
\* the status changes the queue permits
PermittedChanges ==
    {<<"absent", "pending">>,
     <<"pending", "approved">>, <<"pending", "rejected">>,
     <<"pending", "expired">>,
     <<"approved", "executed">>, <<"approved", "failed">>}

\* C1: every status change of the record is pending->approved,
\* pending->rejected, pending->expired, approved->executed or
\* approved->failed (after its creation as pending); a rejected, expired,
\* executed or failed record keeps its status.
C1_StatusDag ==
    [][approval'.status # approval.status =>
          <<approval.status, approval'.status>> \in PermittedChanges]_vars

\* C2: approve and reject never both report success on the record
C2_OneWinner == ~({"approve", "reject"} \subseteq succeeded)

\* C4: with SAFEGUARD enabled, POST /mcp/call and POST /tools/{name} dispatch
\* and invoke the handler only when the gate allows the tool at that
\* confidence, and never for an L3 tool.
C4_GateBeforeDispatch ==
    (/\ safeguard_enabled
     /\ resp.op \in {"call", "direct"}
     /\ resp.dispatched \/ resp.invoked)
    => /\ check_safeguard(resp.tool, resp.conf, TRUE).allowed
       /\ LevelOrNone(resp.tool) # L3_SENSITIVE

\* C4 witness: a call of an L3 tool at confidence 100 is answered 403 without
\* dispatch
C4_Witness ==
    /\ safeguard_enabled
    /\ resp.op = "call"
    /\ resp.tool = "ad_reset_password"
    /\ resp.conf = 100
    /\ resp.code = 403
    /\ ~resp.dispatched

C6_UnknownDenied ==
    (/\ safeguard_enabled
     /\ resp.op \in {"call", "direct"}
     /\ LevelOrNone(resp.tool) = Null)
    => /\ ~resp.allowed
       /\ resp.requires_human
       /\ ~resp.dispatched

\* every sensitive key of the tree, at any depth, holds the sentinel
RECURSIVE FullyRedacted(_)
FullyRedacted(tree) ==
    IF IsDict(tree)
    THEN \A k \in DOMAIN tree.v :
            IF IsSensitiveKey(k)
            THEN tree.v[k] = REDACTED_VALUE
            ELSE FullyRedacted(tree.v[k])
    ELSE IF IsList(tree)
    THEN \A i \in DOMAIN tree.v : FullyRedacted(tree.v[i])
    ELSE TRUE

\* C7: the arguments stored in the record hold the sentinel at every
\* sensitive key, at any nesting depth, maps inside arrays included.
C7_StoredRedacted ==
    approval # NoRow => FullyRedacted(approval.arguments)

\* C9: executing an approved record created with sensitive fields invokes the
\* handler with the argument tree submitted at creation.
C9_HandlerSeesOriginal ==
    (submitted # NotComputed /\ has_sensitive_fields(submitted)) =>
        \A h \in handler_calls : h.args = submitted

\* C10: an envelope exists only for a record created with an extracted
\* sensitive field, and is gone once the record is executed or failed.
C10_EnvelopeLifecycle ==
    /\ envelope # NoEnvelope =>
          /\ submitted # NotComputed
          /\ Truthy(extract_sensitive_fields(submitted).secrets)
    /\ (approval # NoRow /\ approval.status \in {"executed", "failed"})
          => envelope = NoEnvelope

\* C11: a pending record whose expires_at is in the past leaves pending only
\* for expired: neither approve nor reject gives it another status, and reject
\* in particular does not make it rejected.
C11_ExpiredOnlyExpires ==
    [][(/\ approval # NoRow
        /\ approval.status = "pending"
        /\ approval.expires_at < now
        /\ approval'.status # "pending")
       => approval'.status = "expired"]_vars

\* C12: approve on a pending record past its expires_at takes the expired
\* branch, which answers failure, sets the status to expired and leaves
\* approver, approved_at and approval_comment unset.
C12_ExpiredApprove ==
    [][/\ (/\ approval # NoRow
           /\ approval.status = "pending"
           /\ approval.expires_at < now)
          => \A r \in BagToSet(req') :
                r.pc = "approve_update" => CopiesIn(r, req') <= CopiesIn(r, req)
       /\ \A r \in InFlight :
            (r.pc = "approve_expire" /\ req' = Finish(r))
            => /\ resp'.op = "approve"
               /\ ~resp'.success
               /\ resp'.code = 400
               /\ approval'.status = "expired"
               /\ approval'.approver = approval.approver
               /\ approval'.approved_at = approval.approved_at
               /\ approval'.approval_comment = approval.approval_comment
               /\ approval.status = "pending"
                    => /\ approval'.approver = Null
                       /\ approval'.approved_at = Null
                       /\ approval'.approval_comment = Null]_vars

\* C12 witness: approve answered "expired" and the record is expired with no
\* approval metadata
C12_Witness ==
    /\ resp.op = "approve"
    /\ resp.error = "expired"
    /\ approval.status = "expired"
    /\ approval.approver = Null
    /\ approval.approved_at = Null

\* C13: approve called on a record that is not pending answers failure, starts
\* no write and leaves the record as it is, whoever the approver.
C13_ApproveNonPending ==
    [][/\ (approval # NoRow /\ approval.status # "pending")
          => \A r \in BagToSet(req') :
                r.pc \in {"approve_update", "approve_expire"}
                => CopiesIn(r, req') <= CopiesIn(r, req)
       /\ (resp'.op = "approve" /\ resp'.error = "already_processed")
          => /\ ~resp'.success
             /\ resp'.code = 400
             /\ approval' = approval]_vars

\* C13 witness: approve was refused on a record approved by alice, which is
\* still as alice approved it
C13_Witness ==
    /\ resp.op = "approve"
    /\ resp.error = "already_processed"
    /\ approval.status = "approved"
    /\ approval.approver = "alice"
    /\ approval.approved_at = Written

\* C14: every stored record is of level L3; a request for a tool of another
\* level, or of none, is answered 400 and stores no record, starts no insert
\* and writes no envelope.
C14_OnlyL3Stored ==
    /\ [](/\ approval # NoRow =>
                /\ approval.security_level = L3_SENSITIVE
                /\ LevelOrNone(approval.tool_name) = L3_SENSITIVE
          /\ \A r \in InFlight :
                r.pc = "create_insert" => LevelOrNone(r.tool) = L3_SENSITIVE
          /\ (resp.op = "request" /\ LevelOrNone(resp.tool) # L3_SENSITIVE)
                => resp.code = 400)
    /\ [][(resp'.op = "request" /\ resp'.code = 400)
            => /\ approval' = approval
               /\ envelope' = envelope
               /\ req' = req]_vars

\* C14 witness: a request for a tool without a configured level was answered
\* 400 and nothing is stored
C14_Witness ==
    /\ resp.op = "request"
    /\ resp.tool = "glpi_create_user"
    /\ resp.code = 400
    /\ resp.level = "unknown"
    /\ approval = NoRow
    /\ envelope = NoEnvelope

\* C15: a stored record was created before it expires
C15_CreatedBeforeExpiry ==
    approval # NoRow => approval.created_at < approval.expires_at

\* C16: while the envelope of a record created with extracted secrets is
\* missing, executing the record invokes no handler.
C16_NoDispatchWithoutEnvelope ==
    [][(/\ submitted # NotComputed
        /\ Truthy(extract_sensitive_fields(submitted).secrets)
        /\ envelope = NoEnvelope)
       => handler_calls' = handler_calls]_vars

\* C17: a block answered by POST /mcp/call is a 403 whose error code is
\* -32003, with allowed false, requires_human true and the level of the tool,
\* and no approval record comes of it.
C17_BlockShape ==
    (resp.op = "call" /\ ~resp.allowed)
    => /\ resp.code = 403
       /\ resp.error_code = RATE_LIMIT_ERROR
       /\ resp.requires_human
       /\ resp.level = LevelOrNone(resp.tool)
       /\ approval = NoRow

\* C31: mark_executed changes a record only when its status is approved, to
\* executed with a result or to failed with an error; on a record in any
\* other status it leaves the record as it is.
C31_MarkOnlyApproved ==
    [][\A r \in InFlight :
         (r.pc = "execute_mark" /\ req' = Finish(r))
         => IF approval.status = "approved"
            THEN /\ approval'.status = IF r.error_code = 0 THEN "executed"
                                                           ELSE "failed"
                 /\ approval'.executed_at = Written
            ELSE /\ approval'.status = approval.status
                 /\ approval'.executed_at = approval.executed_at
                 /\ approval'.execution_result = approval.execution_result
                 /\ approval'.execution_error = approval.execution_error]_vars

\* C32: an execute request on a record that is not approved starts no
\* dispatch, is answered 400, invokes no handler and leaves the record as
\* it is; on an unknown id it is answered 404 and invokes no handler.
C32_ExecuteNonApproved ==
    [][/\ (approval = NoRow \/ approval.status # "approved")
          => \A r \in BagToSet(req') :
                r.pc = "execute_dispatch" => CopiesIn(r, req') <= CopiesIn(r, req)
       /\ (resp'.op = "execute" /\ ~resp'.dispatched)
          => /\ ~resp'.success
             /\ resp'.code = IF approval = NoRow THEN 404 ELSE 400
             /\ approval = NoRow \/ approval.status # "approved"
             /\ approval' = approval
             /\ handler_calls' = handler_calls]_vars

\* C32 witness: execute was refused with 400 on a rejected record, which is
\* still rejected, and no handler ran
C32_Witness ==
    /\ resp.op = "execute"
    /\ resp.code = 400
    /\ ~resp.dispatched
    /\ approval # NoRow
    /\ approval.status = "rejected"
    /\ handler_calls = {}

\* C33: the approved record leads to at most one handler invocation, however
\* many execute requests name it.
C33_AtMostOneInvocation ==
    Cardinality(handler_calls) <= 1

(***************************************************************************)
(* MCPClient.call (workflows/core/mcp_client.py): the retry loop of the     *)
(* workflow side around POST /mcp/call.  Each POST is answered by the       *)
(* transport with a timeout, a connection error or an HTTP response; the    *)
(* response carries its status and, when its body has an "error" member,    *)
(* the JSON-RPC error code and whether the message holds "safeguard".       *)
(***************************************************************************)
NoResponse == [kind |-> "none"]

Timeout == [kind |-> "timeout"]
RequestError == [kind |-> "request_error"]

\* a JSON-RPC body without "error" member, and one with it: its code and
\* whether its message holds "safeguard" in any case
Result == [error |-> FALSE]
Error(code, safeguard_message) ==
    [error |-> TRUE, code |-> code, safeguard_message |-> safeguard_message]

Http(status, data) == [kind |-> "http", status |-> status, data |-> data]

\* the error_code MCPClient gives to the errors it builds for a transport
\* failure or an unexpected exception
CLIENT_ERROR == -1

\* the SAFEGUARD blocks mcp_call_endpoint sends: status 403, JSON-RPC error
\* with the block code; the L3 message names /safeguard/request, the L1 and
\* L4 messages do not hold the word
SafeguardBlocks == {Http(403, Error(SAFEGUARD_BLOCK_CODE, m)) : m \in BOOLEAN}

\* statuses the server side answers with
HttpStatuses == {200, 400, 401, 403, 404, 429, 500, 503}

\* what one POST can be answered with
Responses ==
    {Timeout, RequestError}
    \cup {Http(200, Result)}
    \cup {Http(200, Error(c, m)) : c \in {TOOL_EXECUTION_ERROR, RATE_LIMIT_ERROR},
                                   m \in BOOLEAN}
    \cup {Http(st, Result) : st \in HttpStatuses \ {200}}
    \cup SafeguardBlocks

\* a transport failure or a 5xx response
IsFailure(r) == r.kind \in {"timeout", "request_error"}
                \/ (r.kind = "http" /\ r.status >= 500)

NoException == [class |-> "none"]
Exception(class) == [class |-> class]
MCPError(error_code) == [class |-> "MCPError", error_code |-> error_code]
Return == [class |-> "return"]

\* the body of the try block for one response: Return, or the exception
\* raised inside it
try_post(r) ==
    IF r.kind = "timeout" THEN Exception("TimeoutException")
    ELSE IF r.kind = "request_error" THEN Exception("RequestError")
    ELSE IF r.status = 403 THEN MCPError(403)
    ELSE IF r.status = 404 THEN MCPError(404)
    ELSE IF r.status >= 500 THEN MCPError(r.status)
    ELSE IF r.status >= 400 THEN Exception("HTTPStatusError")
    ELSE IF r.data.error
    THEN IF r.data.code = RATE_LIMIT_ERROR \/ r.data.safeguard_message
         THEN Exception("SafeguardBlockedError")
         ELSE MCPError(r.data.code)
    ELSE Return

\* the except clauses: TRUE when the exception leaves call
Reraised(e) ==
    \/ e.class = "SafeguardBlockedError"
    \/ e.class = "MCPError" /\ e.error_code \in {403, 404}

\* last_error after a caught exception
CaughtAs(e) == IF e.class = "MCPError" THEN e ELSE MCPError(CLIENT_ERROR)

Min(a, b) == IF a <= b THEN a ELSE b

\* mutation of wait_time: the backoff is not capped
wait_time_uncapped(n) == 2 ^ n

\* wait_time = min(2 ** attempt, 10)
wait_time(n) == Min(2 ^ n, 10)

ClientIdle ==
    /\ max_retries = 1
    /\ cl_pc = "post"
    /\ attempt = 1
    /\ last_error = NoException
    /\ cl_response = NoResponse
    /\ cl_raised = NoException
    /\ cl_posts = 0
    /\ cl_sleeps = <<>>
    /\ cl_only_failures = TRUE

\* a client built with some max_retries >= 1 enters the loop of call
ClientInit ==
    /\ max_retries \in 1..MaxRetries
    /\ cl_pc = "post"
    /\ attempt = 1
    /\ last_error = NoException
    /\ cl_response = NoResponse
    /\ cl_raised = NoException
    /\ cl_posts = 0
    /\ cl_sleeps = <<>>
    /\ cl_only_failures = TRUE

\* one iteration of the loop up to the sleep: the POST, the handling of its
\* answer, the except clauses, and after the last iteration raise last_error
ClientPost(r) ==
    LET e == try_post(r)
    IN  /\ cl_pc = "post"
        /\ cl_response' = r
        /\ cl_posts' = cl_posts + 1
        /\ cl_only_failures' = (cl_only_failures /\ IsFailure(r))
        /\ IF e.class = "return"
           THEN /\ cl_pc' = "returned"
                /\ UNCHANGED <<last_error, cl_raised>>
           ELSE IF Reraised(e)
           THEN /\ cl_pc' = "raised"
                /\ cl_raised' = e
                /\ UNCHANGED last_error
           ELSE /\ last_error' = CaughtAs(e)
                /\ IF attempt < max_retries
                   THEN /\ cl_pc' = "sleep"
                        /\ UNCHANGED cl_raised
                   ELSE /\ cl_pc' = "raised"
                        /\ cl_raised' = CaughtAs(e)
        /\ UNCHANGED <<max_retries, attempt, cl_sleeps, not_cl_vars>>

\* await asyncio.sleep(wait_time), then the next iteration
ClientSleep ==
    /\ cl_pc = "sleep"
    /\ cl_sleeps' = Append(cl_sleeps, wait_time(attempt))
    /\ attempt' = attempt + 1
    /\ cl_pc' = "post"
    /\ UNCHANGED <<max_retries, last_error, cl_response, cl_raised, cl_posts,
                   cl_only_failures, not_cl_vars>>

ClientNext ==
    \/ \E r \in Responses : ClientPost(r)
    \/ ClientSleep

\* C18: a SAFEGUARD block of the server ends the call at once with a
\* SafeguardBlockedError.
C18_BlockRaisesSafeguardError ==
    cl_response \in SafeguardBlocks
    => /\ cl_pc = "raised"
       /\ cl_raised.class = "SafeguardBlockedError"

\* C19: a response with status 400, 401, 403 or 404 ends the call: it is
\* raised and no further POST follows.
C19_NoRetryOn4xx ==
    (cl_response.kind = "http" /\ cl_response.status \in {400, 401, 403, 404})
    => cl_pc = "raised"

\* the sleeps between n consecutive failed attempts
Backoff(n) == [i \in 1..(n - 1) |-> Min(2 ^ i, 10)]

\* C20: while every answer is a transport failure or a 5xx, call makes
\* max_retries POSTs and no more, sleeps min(2^attempt, 10) after each but the
\* last, then raises the MCPError of the last attempt; it does terminate.
C20_RetriesThenRaises ==
    /\ [](/\ cl_posts <= max_retries
          /\ cl_only_failures =>
                /\ cl_pc # "returned"
                /\ cl_pc = "raised" <=> cl_posts = max_retries
                /\ cl_pc = "sleep" => cl_sleeps = Backoff(cl_posts)
                /\ cl_pc = "post" => cl_sleeps = Backoff(cl_posts + 1)
                /\ cl_pc = "raised" =>
                      /\ cl_sleeps = Backoff(max_retries)
                      /\ cl_raised = MCPError(IF cl_response.kind = "http"
                                               THEN cl_response.status
                                               ELSE CLIENT_ERROR))
    /\ <>(cl_pc \in {"raised", "returned"})

\* C20 witness: five failed attempts, the last a 503, with the capped sleep
C20_Witness ==
    /\ cl_only_failures
    /\ max_retries = 5
    /\ cl_pc = "raised"
    /\ cl_posts = 5
    /\ cl_sleeps = <<2, 4, 8, 10>>
    /\ cl_raised = MCPError(503)

(***************************************************************************)
(* HealthCheckWorkflow.execute (workflows/health_check/workflow.py) over   *)
(* the Redis helpers of workflows/core/redis_client.py.  The workflow is   *)
(* run by the interval job and by POST /workflows/health_check/trigger, on *)
(* the same instance: executions interleave at their awaits.  Every Redis  *)
(* helper catches the errors of the connection and returns None or False.  *)
(* Time is counted in minutes; an execution (timeout_seconds = 15) takes   *)
(* no time.                                                                *)
(***************************************************************************)
\* HEALTH_STATUS_TTL = 60 seconds
HEALTH_STATUS_TTL == 1
\* ALERT_COOLDOWN_TTL = 300 seconds
ALERT_COOLDOWN_TTL == 5

\* what _ping_glpi returns when glpi_url is configured
PingStatuses == {"ok", "degraded", "down"}

NoKey == [value |-> Null, expires |-> NoTime]

NoEvent == [kind |-> "none"]

\* an execution: its next await and the locals status and previous_status;
\* alerted tells whether its probe was made while a posted down alert had had
\* no recovery alert (history)
Run(pc, status, previous_status) ==
    [pc |-> pc, status |-> status, previous_status |-> previous_status,
     alerted |-> FALSE]

HcCanStart == BagCardinality(hc_runs) < MaxRuns
HcStep(r, r2) == (hc_runs (-) SetToBag({r})) (+) SetToBag({r2})
HcFinish(r) == hc_runs (-) SetToBag({r})

\* RedisClient.get_health_status("glpi"): status or "unknown"
get_health_status(redis_ok) ==
    IF redis_ok /\ health_status # NoKey THEN health_status.value ELSE "unknown"

\* RedisClient.is_alert_sent("glpi_down"): exists(key), False on an error
is_alert_sent(redis_ok) == redis_ok /\ alert_sent # NoTime

HealthIdle ==
    /\ hc_now = 0
    /\ health_status = NoKey
    /\ alert_sent = NoTime
    /\ hc_runs = EmptyBag
    /\ hc_event = NoEvent
    /\ last_down_alert = NoTime
    /\ recoveries = 0
    /\ slack_webhook_url = FALSE
    /\ outage_alerted = FALSE

HealthInit ==
    /\ hc_now = 0
    /\ health_status = NoKey
    /\ alert_sent = NoTime
    /\ hc_runs = EmptyBag
    /\ hc_event = NoEvent
    /\ last_down_alert = NoTime
    /\ recoveries = 0
    /\ slack_webhook_url \in BOOLEAN
    /\ outage_alerted = FALSE

\* the interval job fires, or the trigger endpoint is called
HcStart ==
    /\ HcCanStart
    /\ hc_runs' = hc_runs (+) SetToBag({Run("ping", Null, Null)})
    /\ hc_event' = NoEvent
    /\ UNCHANGED <<hc_now, health_status, alert_sent, last_down_alert,
                   recoveries, slack_webhook_url, outage_alerted, not_hc_vars>>

\* 1. status, error_message = await self._ping_glpi()
HcPing(r, status) ==
    /\ r.pc = "ping"
    /\ hc_runs' = HcStep(r, [Run("get", status, Null)
                                EXCEPT !.alerted = outage_alerted])
    /\ hc_event' = NoEvent
    /\ last_down_alert' = IF status = "down" THEN last_down_alert ELSE NoTime
    /\ recoveries' = IF status = "down" THEN 0 ELSE recoveries
    /\ UNCHANGED <<hc_now, health_status, alert_sent, slack_webhook_url, outage_alerted, not_hc_vars>>

\* 2. previous_status = await self.redis.get_health_status("glpi")
HcGet(r, redis_ok) ==
    /\ r.pc = "get"
    /\ hc_runs' = HcStep(r, [Run("set", r.status, get_health_status(redis_ok))
                                EXCEPT !.alerted = r.alerted])
    /\ hc_event' = [kind |-> "read", stored |-> health_status.value,
                    previous_status |-> get_health_status(redis_ok)]
    /\ UNCHANGED <<hc_now, health_status, alert_sent, last_down_alert,
                   recoveries, slack_webhook_url, outage_alerted, not_hc_vars>>

\* 3. set_health_status, then 4. the branch on status and previous_status
HcSet(r, redis_ok) ==
    /\ r.pc = "set"
    /\ health_status' =
          IF redis_ok
          THEN [value |-> r.status, expires |-> hc_now + HEALTH_STATUS_TTL]
          ELSE health_status
    /\ hc_runs' =
          IF r.status = "down"
          THEN HcStep(r, Run("is_alert_sent", Null, Null))
          ELSE IF r.status = "ok" /\ r.previous_status = "down"
          THEN HcStep(r, Run("send_recovery", Null, Null))
          ELSE HcFinish(r)
    /\ hc_event' = NoEvent
    /\ UNCHANGED <<hc_now, alert_sent, last_down_alert, recoveries,
                   slack_webhook_url, outage_alerted, not_hc_vars>>

\* if not await self.redis.is_alert_sent("glpi_down")
HcIsAlertSent(r, redis_ok) ==
    /\ r.pc = "is_alert_sent"
    /\ hc_runs' = IF is_alert_sent(redis_ok)
                  THEN HcFinish(r)
                  ELSE HcStep(r, Run("send_down", Null, Null))
    /\ hc_event' = [kind |-> "checked", flag |-> alert_sent # NoTime,
                    answer |-> is_alert_sent(redis_ok)]
    /\ UNCHANGED <<hc_now, health_status, alert_sent, last_down_alert,
                   recoveries, slack_webhook_url, outage_alerted, not_hc_vars>>

\* _send_down_alert / _send_recovery_alert: nothing is sent without a
\* webhook; an exception of the POST is logged and swallowed
Posted(post_ok) == slack_webhook_url /\ post_ok

\* await self._send_down_alert(error_message): returns None whatever
\* happened; the position "mark_unsent" is "mark" of an execution whose
\* alert was not posted
HcSendDownAlert(r, post_ok) ==
    /\ r.pc = "send_down"
    /\ hc_runs' = HcStep(r, Run(IF Posted(post_ok) THEN "mark"
                                                   ELSE "mark_unsent",
                                Null, Null))
    /\ hc_event' = IF Posted(post_ok)
                   THEN [kind |-> "down_alert", since |-> last_down_alert]
                   ELSE [kind |-> "down_alert_lost"]
    /\ last_down_alert' = IF Posted(post_ok) THEN hc_now ELSE last_down_alert
    /\ outage_alerted' = (outage_alerted \/ Posted(post_ok))
    /\ UNCHANGED <<hc_now, health_status, alert_sent, recoveries,
                   slack_webhook_url, not_hc_vars>>

\* await self.redis.mark_alert_sent("glpi_down", self.ALERT_COOLDOWN_TTL)
HcMarkAlertSent(r, redis_ok) ==
    /\ r.pc \in {"mark", "mark_unsent"}
    /\ alert_sent' = IF redis_ok THEN hc_now + ALERT_COOLDOWN_TTL ELSE alert_sent
    /\ hc_runs' = HcFinish(r)
    /\ hc_event' = [kind |-> "marked", written |-> redis_ok,
                    posted |-> r.pc = "mark"]
    /\ UNCHANGED <<hc_now, health_status, last_down_alert, recoveries,
                   slack_webhook_url, outage_alerted, not_hc_vars>>

\* await self._send_recovery_alert()
HcSendRecoveryAlert(r) ==
    /\ r.pc = "send_recovery"
    /\ hc_runs' = HcStep(r, Run("clear", Null, Null))
    /\ hc_event' = [kind |-> "recovery_alert"]
    /\ recoveries' = Min(recoveries + 1, MaxRecoveries)
    /\ outage_alerted' = FALSE
    /\ UNCHANGED <<hc_now, health_status, alert_sent, last_down_alert,
                   slack_webhook_url, not_hc_vars>>

\* await self.redis.clear_alert_sent("glpi_down")
HcClearAlertSent(r, redis_ok) ==
    /\ r.pc = "clear"
    /\ alert_sent' = IF redis_ok THEN NoTime ELSE alert_sent
    /\ hc_runs' = HcFinish(r)
    /\ hc_event' = [kind |-> "cleared"]
    /\ UNCHANGED <<hc_now, health_status, last_down_alert, recoveries,
                   slack_webhook_url, outage_alerted, not_hc_vars>>

\* WorkflowBase.run: asyncio.wait_for cancels execute at its await after
\* timeout_seconds, then on_error writes the status "unknown"
HcTimeout(r, redis_ok) ==
    /\ hc_runs' = HcFinish(r)
    /\ health_status' =
          IF redis_ok
          THEN [value |-> "unknown", expires |-> hc_now + HEALTH_STATUS_TTL]
          ELSE health_status
    /\ hc_event' = NoEvent
    /\ UNCHANGED <<hc_now, alert_sent, last_down_alert, recoveries,
                   slack_webhook_url, outage_alerted, not_hc_vars>>

\* a minute passes between executions; Redis drops the keys that expire
HcTick ==
    /\ hc_runs = EmptyBag
    /\ hc_now < MaxClock
    /\ hc_now' = hc_now + 1
    /\ health_status' = IF health_status # NoKey
                           /\ health_status.expires <= hc_now + 1
                        THEN NoKey ELSE health_status
    /\ alert_sent' = IF alert_sent # NoTime /\ alert_sent <= hc_now + 1
                     THEN NoTime ELSE alert_sent
    /\ hc_event' = NoEvent
    /\ UNCHANGED <<hc_runs, last_down_alert, recoveries, slack_webhook_url, outage_alerted, not_hc_vars>>

HealthNext ==
    \/ HcStart
    \/ \E r \in BagToSet(hc_runs) :
          \/ \E status \in PingStatuses : HcPing(r, status)
          \/ \E redis_ok \in BOOLEAN :
                \/ HcGet(r, redis_ok)
                \/ HcSet(r, redis_ok)
                \/ HcIsAlertSent(r, redis_ok)
                \/ HcMarkAlertSent(r, redis_ok)
                \/ HcClearAlertSent(r, redis_ok)
                \/ HcTimeout(r, redis_ok)
          \/ \E post_ok \in BOOLEAN : HcSendDownAlert(r, post_ok)
          \/ HcSendRecoveryAlert(r)
    \/ HcTick

\* C21: a down alert is emitted only by an execution that classified the
\* upstream as down and while the flag glpi_down_alert_sent is absent; the
\* flag is then set for 300 seconds; two down alerts of one continuous
\* outage are at least 300 seconds apart.
C21_DownAlertCooldown ==
    [][/\ hc_event'.kind = "checked" =>
             (hc_event'.answer <=> hc_event'.flag)
       /\ hc_event'.kind = "marked" =>
             alert_sent' = hc_now + ALERT_COOLDOWN_TTL
       /\ hc_event'.kind = "down_alert" =>
             \/ hc_event'.since = NoTime
             \/ hc_now - hc_event'.since >= ALERT_COOLDOWN_TTL]_vars

\* C22: an execution that finds the stored status down while its probe is ok
\* emits the recovery alert and clears the flag; the recovery alert is emitted
\* once: the ok executions that follow emit none.
C22_RecoveryOnce ==
    /\ [][/\ hc_event'.kind = "read" =>
                (hc_event'.previous_status = "down"
                    <=> hc_event'.stored = "down")
          /\ hc_event'.kind = "cleared" => alert_sent' = NoTime]_vars
    /\ [](recoveries <= 1)

\* C36: an execution that classified the upstream as ok after a down alert
\* was posted, and finds that alert still without a recovery alert, goes on
\* to send the recovery alert, whatever status it read, and the clearing
\* that follows removes the flag.
C36_RecoveryAfterAlert ==
    [][/\ \A r \in BagToSet(hc_runs) :
            (/\ r.pc = "set"
             /\ r.status = "ok"
             /\ r.alerted
             /\ outage_alerted
             /\ hc_runs' \in {HcFinish(r),
                              HcStep(r, Run("send_recovery", Null, Null))})
            => hc_runs' = HcStep(r, Run("send_recovery", Null, Null))
       /\ hc_event'.kind = "cleared" => alert_sent' = NoTime]_vars

\* C37: the flag glpi_down_alert_sent is written only by an execution whose
\* down alert was posted.
C37_FlagAfterDelivery ==
    [][(hc_event'.kind = "marked" /\ hc_event'.written)
          => hc_event'.posted]_vars

(***************************************************************************)
(* WorkflowBase.run (workflows/core/base.py).  A workflow subclass is      *)
(* given by the behaviour of validate, execute, on_success and on_error    *)
(* and by the number of tool calls execute logs in the context.            *)
(***************************************************************************)
\* WorkflowStatus
IDLE == "idle"
RUNNING == "running"
COMPLETED == "completed"
FAILED == "failed"
TIMEOUT == "timeout"

\* validate returns True or False, or raises
ValidateBehaviours == {"true", "false", "Exception"}
\* execute returns, runs past timeout_seconds, or raises a WorkflowError, an
\* asyncio.TimeoutError of its own or another exception
ExecuteBehaviours ==
    {"return", "overrun", "WorkflowError", "TimeoutError", "Exception"}
\* a callback returns or raises
OnSuccessBehaviours == {"return", "WorkflowError", "TimeoutError", "Exception"}
OnErrorBehaviours == {"return", "Exception"}

Workflows ==
    [validate : ValidateBehaviours, execute : ExecuteBehaviours,
     on_success : OnSuccessBehaviours, on_error : OnErrorBehaviours,
     tools : 0..MaxTools]

NoResult == [success |-> Null]

\* the dict of the success return
SuccessResult ==
    [success |-> TRUE,
     keys |-> {"success", "workflow_id", "result", "elapsed_ms", "tools_called"},
     error |-> Null]

\* the dict returned by the except clause that caught raised: its "error"
\* member is error.to_dict() with the class name, or the UnexpectedError dict
ErrorResult(raised) ==
    [success |-> FALSE,
     keys |-> {"success", "workflow_id", "error", "elapsed_ms"},
     error |-> CASE raised = "TimeoutError" -> "WorkflowTimeoutError"
                 [] raised = "WorkflowError" -> "WorkflowError"
                 [] OTHER -> "UnexpectedError"]

\* self.status set by the except clause that catches raised
StatusOf(raised) == IF raised = "TimeoutError" THEN TIMEOUT ELSE FAILED

\* the error object the except clause hands to on_error
ErrorOf(raised) ==
    IF raised = "TimeoutError" THEN "WorkflowTimeoutError" ELSE raised

\* an exception raised inside the try block: the except clause up to its
\* await self.on_error(ctx, error)
Except(raised) ==
    /\ wf_status' = StatusOf(raised)
    /\ wf_error' = raised
    /\ wf_pc' = "on_error"

RunIdle ==
    /\ wf_workflow = [validate |-> "true", execute |-> "return",
                      on_success |-> "return", on_error |-> "return",
                      tools |-> 0]
    /\ wf_pc = "validate"
    /\ wf_status = IDLE
    /\ wf_error = Null
    /\ wf_cancelled = FALSE
    /\ on_success_calls = 0
    /\ on_error_calls = 0
    /\ on_error_arg = Null
    /\ wf_tools_called = 0
    /\ wf_result = NoResult

\* run is called on a fresh instance of some subclass
RunInit ==
    /\ wf_workflow \in Workflows
    /\ wf_pc = "validate"
    /\ wf_status = IDLE
    /\ wf_error = Null
    /\ wf_cancelled = FALSE
    /\ on_success_calls = 0
    /\ on_error_calls = 0
    /\ on_error_arg = Null
    /\ wf_tools_called = 0
    /\ wf_result = NoResult

\* if not await self.validate(...): raise WorkflowError; self.status = RUNNING
RunValidate ==
    /\ wf_pc = "validate"
    /\ CASE wf_workflow.validate = "true" ->
               /\ wf_status' = RUNNING
               /\ wf_pc' = "execute"
               /\ UNCHANGED wf_error
         [] wf_workflow.validate = "false" -> Except("WorkflowError")
         [] OTHER -> Except(wf_workflow.validate)
    /\ UNCHANGED <<wf_workflow, wf_cancelled, on_success_calls, on_error_calls,
                   on_error_arg, wf_tools_called, wf_result, not_wf_vars>>

\* result = await asyncio.wait_for(self.execute(ctx), timeout); ctx.complete();
\* self.status = COMPLETED
RunExecute ==
    /\ wf_pc = "execute"
    /\ wf_tools_called' = wf_workflow.tools
    /\ wf_cancelled' = (wf_workflow.execute = "overrun")
    /\ CASE wf_workflow.execute = "return" ->
               /\ wf_status' = COMPLETED
               /\ wf_pc' = "on_success"
               /\ UNCHANGED wf_error
         [] wf_workflow.execute = "overrun" -> Except("TimeoutError")
         [] OTHER -> Except(wf_workflow.execute)
    /\ UNCHANGED <<wf_workflow, on_success_calls, on_error_calls, on_error_arg,
                   wf_result, not_wf_vars>>

\* await self.on_success(ctx, result), inside the try block; return {...}
RunOnSuccess ==
    /\ wf_pc = "on_success"
    /\ on_success_calls' = on_success_calls + 1
    /\ IF wf_workflow.on_success = "return"
       THEN /\ wf_result' = SuccessResult
            /\ wf_pc' = "returned"
            /\ UNCHANGED <<wf_status, wf_error>>
       ELSE /\ Except(wf_workflow.on_success)
            /\ UNCHANGED wf_result
    /\ UNCHANGED <<wf_workflow, wf_cancelled, on_error_calls, on_error_arg,
                   wf_tools_called, not_wf_vars>>

\* await self.on_error(ctx, error), inside an except clause; return {...}
RunOnError ==
    /\ wf_pc = "on_error"
    /\ on_error_calls' = on_error_calls + 1
    /\ on_error_arg' = ErrorOf(wf_error)
    /\ IF wf_workflow.on_error = "return"
       THEN /\ wf_result' = ErrorResult(wf_error)
            /\ wf_pc' = "returned"
       ELSE /\ wf_pc' = "escaped"
            /\ UNCHANGED wf_result
    /\ UNCHANGED <<wf_workflow, wf_status, wf_error, wf_cancelled,
                   on_success_calls, wf_tools_called, not_wf_vars>>

RunNext == RunValidate \/ RunExecute \/ RunOnSuccess \/ RunOnError

RunEnded == wf_pc \in {"returned", "escaped"}

\* C23: a run invokes exactly one of on_success and on_error, once:
\* on_success when it returns success = true, on_error when it returns
\* success = false.
C23_OneCallback ==
    RunEnded =>
        /\ on_success_calls + on_error_calls = 1
        /\ wf_pc = "returned" =>
              /\ on_success_calls = 1 <=> wf_result.success
              /\ on_error_calls = 1 <=> ~wf_result.success

\* C24: when execute runs past timeout_seconds, run cancels it, sets the
\* status timeout, calls on_error once with a WorkflowTimeoutError and never
\* on_success, and returns success = false with the timeout error.
C24_Timeout ==
    (/\ wf_workflow.validate = "true"
     /\ wf_workflow.execute = "overrun"
     /\ wf_pc \notin {"validate", "execute"}) =>
        /\ wf_cancelled
        /\ wf_status = TIMEOUT
        /\ on_success_calls = 0
        /\ RunEnded =>
              /\ on_error_calls = 1
              /\ on_error_arg = "WorkflowTimeoutError"
              /\ wf_pc = "returned"
              /\ wf_result = ErrorResult("TimeoutError")

\* C25: every run returns a dict with success, workflow_id, result or error,
\* elapsed_ms and the tools-called count; no exception leaves run.
C25_UniformEnvelope ==
    RunEnded =>
        /\ wf_pc = "returned"
        /\ {"success", "workflow_id", "elapsed_ms", "tools_called"}
              \subseteq wf_result.keys
        /\ ("result" \in wf_result.keys) # ("error" \in wf_result.keys)

(***************************************************************************)
(* Settings.validate_security (src/config.py) and its use by lifespan      *)
(* (src/mcp/server.py).  A secret is given by its length, the origin list  *)
(* by the number of characters of CORS_ALLOWED_ORIGINS.                    *)
(***************************************************************************)
E_production == <<"p","r","o","d","u","c","t","i","o","n">>
E_Production == <<"P","r","o","d","u","c","t","i","o","n">>
E_development == <<"d","e","v","e","l","o","p","m","e","n","t">>
E_staging == <<"s","t","a","g","i","n","g">>

Environments == {E_production, E_Production, E_development, E_staging}

\* lengths of MCP_API_KEY and REDIS_SECRET_KEY around the 32 of the check
KeyLengths == {0, 1, 31, 32, 33}

SettingsSamples ==
    [environment : Environments,
     mcp_require_auth : BOOLEAN,
     mcp_api_key : KeyLengths,
     safeguard_enabled : BOOLEAN,
     cors_allowed_origins : {0, 21},
     redis_secret_key : {0, 31, 32}]

Critical(about) == [severity |-> "CRITICAL", about |-> about]
Warning(about) == [severity |-> "WARNING", about |-> about]

\* errors.append(e) when cond
AppendIf(errors, cond, e) == IF cond THEN Append(errors, e) ELSE errors

\* the block under `if self.environment.lower() == "production"`
production_errors(s) ==
    LET e1 == AppendIf(<<>>, ~s.mcp_require_auth, Critical("MCP_REQUIRE_AUTH"))
        e2 == AppendIf(e1, s.mcp_api_key = 0, Critical("MCP_API_KEY"))
        e3 == AppendIf(e2, ~s.safeguard_enabled, Critical("SAFEGUARD_ENABLED"))
        e4 == AppendIf(e3, s.cors_allowed_origins = 0,
                       Critical("CORS_ALLOWED_ORIGINS"))
    IN  AppendIf(e4, s.redis_secret_key = 0, Critical("REDIS_SECRET_KEY"))

validate_security(s) ==
    LET e0 == IF Lower(s.environment) = E_production
              THEN production_errors(s)
              ELSE <<>>
        e1 == AppendIf(e0, s.mcp_require_auth /\ s.mcp_api_key = 0,
                       Critical("mcp_require_auth"))
        e2 == AppendIf(e1, s.mcp_api_key > 0 /\ s.mcp_api_key < 32,
                       Warning("MCP_API_KEY"))
    IN  AppendIf(e2, s.redis_secret_key > 0 /\ s.redis_secret_key < 32,
                 Warning("REDIS_SECRET_KEY"))

StartupIdle ==
    /\ settings = [environment |-> E_development, mcp_require_auth |-> TRUE,
                   mcp_api_key |-> 32, safeguard_enabled |-> TRUE,
                   cors_allowed_origins |-> 21, redis_secret_key |-> 32]
    /\ security_errors = <<>>
    /\ startup = "pending"

StartupInit ==
    /\ settings \in SettingsSamples
    /\ security_errors = <<>>
    /\ startup = "pending"

\* lifespan up to the first request: raise RuntimeError on the first error
\* that starts with CRITICAL, log the others
Lifespan ==
    /\ startup = "pending"
    /\ security_errors' = validate_security(settings)
    /\ startup' =
          IF \E i \in 1..Len(validate_security(settings)) :
                validate_security(settings)[i].severity = "CRITICAL"
          THEN "raised" ELSE "serving"
    /\ UNCHANGED <<settings, not_cfg_vars>>

\* a request is served once startup is over
Serve ==
    /\ startup = "serving"
    /\ startup' = "served"
    /\ UNCHANGED <<settings, security_errors, not_cfg_vars>>

StartupNext == Lifespan \/ Serve

\* C26: in production the process serves no request when authentication is
\* off, the API key is empty or shorter than 32 characters, SAFEGUARD is off,
\* the encryption key is empty or the origin list is empty.
C26_ProductionStartup ==
    (/\ Lower(settings.environment) = E_production
     /\ \/ ~settings.mcp_require_auth
        \/ settings.mcp_api_key < 32
        \/ ~settings.safeguard_enabled
        \/ settings.redis_secret_key = 0
        \/ settings.cors_allowed_origins = 0)
    => startup \in {"pending", "raised"}

(***************************************************************************)
(* ToolRegistry (src/mcp/registry.py).  self._tools is a dict: a sequence  *)
(* of tools in insertion order with one entry per name.  A tool carries    *)
(* its handler and parameters; the tools here have the parameters of       *)
(* notify_client that matter: ticket_id (string, required or with a        *)
(* default) and notification_type (string, optional, enum).                *)
(***************************************************************************)
VALIDATION_ERROR == -32005
TIMEOUT_ERROR == -32006

\* string_param(required = ...) for ticket_id, and the handler's signature:
\* ticket_id has no default exactly when the parameter is required
MCPTool(name, handler, required) ==
    [name |-> name, handler |-> handler, required |-> required]

Names(tools) == {tools[i].name : i \in 1..Len(tools)}

\* self._tools.get(name); NoTool is None
NoTool == [name |-> Null]
Get(tools, name) ==
    IF name \in Names(tools)
    THEN tools[CHOOSE i \in 1..Len(tools) : tools[i].name = name]
    ELSE NoTool

\* self._tools[tool.name] = tool: replace in place or insert at the end
SetItem(tools, tool) ==
    IF tool.name \in Names(tools)
    THEN [i \in 1..Len(tools) |->
            IF tools[i].name = tool.name THEN tool ELSE tools[i]]
    ELSE Append(tools, tool)

\* names and definitions offered to register
ToolNamesOffered == {"notify_client", "glpi_get_ticket", "glpi_close_ticket"}
ToolsOffered ==
    {MCPTool(n, h, q) : n \in ToolNamesOffered,
                        h \in {"handler_1", "handler_2"}, q \in BOOLEAN}

NoRegistration == [op |-> "none"]
Registration(tool, raised) ==
    [op |-> "register", tool |-> tool, raised |-> raised]

\* mutation of register: no test of the name
register_overwrite(tool) ==
    /\ _tools' = SetItem(_tools, tool)
    /\ reg_event' = Registration(tool, Null)

\* ToolRegistry.register
register(tool) ==
    IF tool.name \in Names(_tools)
    THEN /\ reg_event' = Registration(tool, "ValueError")
         /\ UNCHANGED _tools
    ELSE /\ _tools' = SetItem(_tools, tool)
         /\ reg_event' = Registration(tool, Null)

\* get_all / get_schemas: the values of the dict in order
get_all == _tools

NoCalls == EmptyBag
NoExecResponse == [op |-> "none"]

RegistryIdle ==
    /\ _tools = <<>>
    /\ reg_event = NoRegistration
    /\ first_registered = <<>>
    /\ calls = NoCalls
    /\ exec_response = NoExecResponse

RegisterInit == RegistryIdle

\* one call of register, by a decorator at import time or later
Register(tool) ==
    /\ register(tool)
    /\ first_registered' =
          IF tool.name \in Names(first_registered)
          THEN first_registered
          ELSE Append(first_registered, tool)
    /\ UNCHANGED <<calls, exec_response, not_reg_vars>>

\* a listing between registrations
ListTools ==
    /\ reg_event # NoRegistration
    /\ reg_event' = [op |-> "list", listed |-> get_all]
    /\ UNCHANGED <<_tools, first_registered, calls, exec_response,
                   not_reg_vars>>

RegisterNext ==
    \/ \E tool \in ToolsOffered : Register(tool)
    \/ ListTools

(***************************************************************************)
(* ToolRegistry.execute.  The arguments of a call give, for each of the    *)
(* two parameters, what the caller sent; the handler is given by what its  *)
(* body does once called.                                                  *)
(***************************************************************************)
Arguments(ticket_id, notification_type) ==
    [ticket_id |-> ticket_id, notification_type |-> notification_type]

ExecArguments ==
    {Arguments("string", "absent"),     \* valid
     Arguments("string", "info"),       \* valid, inside the enum
     Arguments("absent", "absent"),     \* required parameter missing
     Arguments("integer", "absent"),    \* wrong primitive type
     Arguments("string", "bogus")}      \* outside the enum

\* the arguments satisfy the parameters a tool declares
Conforms(tool, arguments) ==
    /\ arguments.ticket_id = "string"
          \/ (arguments.ticket_id = "absent" /\ ~tool.required)
    /\ arguments.notification_type \in {"absent", "info"}

\* tool.handler(**arguments) raises TypeError before the body runs: a
\* parameter without default is missing
BindFails(tool, arguments) ==
    tool.required /\ arguments.ticket_id = "absent"

\* what the body of a handler does: it returns, raises, or awaits for ever
HandlerBehaviours ==
    {"return", "TypeError", "ValueError", "TimeoutException", "hang"}

RegisteredAtStartup ==
    <<MCPTool("notify_client", "handler_1", TRUE),
      MCPTool("glpi_get_ticket", "handler_2", FALSE)>>

ExecNames == Names(RegisteredAtStartup) \cup {"unknown_tool"}

ExecResponse(tool_name, arguments, invoked, raised, code, error_type) ==
    [op |-> "execute", tool_name |-> tool_name, arguments |-> arguments,
     invoked |-> invoked, raised |-> raised, code |-> code,
     error_type |-> error_type]

ExecuteInit ==
    /\ _tools = RegisteredAtStartup
    /\ reg_event = NoRegistration
    /\ first_registered = RegisteredAtStartup
    /\ calls = NoCalls
    /\ exec_response = NoExecResponse

\* execute up to `await tool.handler(**arguments)`
ExecuteCall(tool_name, arguments, behaviour) ==
    LET tool == Get(_tools, tool_name)
    IN  /\ IF tool = NoTool
           THEN /\ exec_response' =
                      ExecResponse(tool_name, arguments, FALSE, Null,
                                   TOOL_NOT_FOUND, Null)
                /\ UNCHANGED calls
           ELSE IF BindFails(tool, arguments)
           THEN /\ exec_response' =
                      ExecResponse(tool_name, arguments, FALSE, "TypeError",
                                   INVALID_PARAMS, Null)
                /\ UNCHANGED calls
           ELSE /\ BagCardinality(calls) < MaxCalls
                /\ calls' = calls (+) SetToBag({[tool_name |-> tool_name,
                                                 arguments |-> arguments,
                                                 behaviour |-> behaviour]})
                /\ exec_response' = NoExecResponse
        /\ UNCHANGED <<_tools, reg_event, first_registered, not_reg_vars>>

\* the handler returns or raises: the rest of execute
ExecuteReturn(c) ==
    /\ c.behaviour # "hang"
    /\ calls' = calls (-) SetToBag({c})
    /\ exec_response' =
          CASE c.behaviour = "return" ->
                  ExecResponse(c.tool_name, c.arguments, TRUE, Null, 0, Null)
            [] c.behaviour = "TypeError" ->
                  ExecResponse(c.tool_name, c.arguments, TRUE, c.behaviour,
                               INVALID_PARAMS, Null)
            [] OTHER ->
                  ExecResponse(c.tool_name, c.arguments, TRUE, c.behaviour,
                               TOOL_EXECUTION_ERROR, c.behaviour)
    /\ UNCHANGED <<_tools, reg_event, first_registered, not_reg_vars>>

ExecuteNext ==
    \/ \E tool_name \in ExecNames, arguments \in ExecArguments,
          behaviour \in HandlerBehaviours :
             ExecuteCall(tool_name, arguments, behaviour)
    \/ \E c \in BagToSet(calls) : ExecuteReturn(c)

\* C27: every exception raised by the body of a handler, a TypeError
\* included, comes back as error -32001 with the exception type in
\* data.error_type.
C27_HandlerFailure ==
    (exec_response.op = "execute" /\ exec_response.invoked
        /\ exec_response.raised # Null)
    => /\ exec_response.code = TOOL_EXECUTION_ERROR
       /\ exec_response.error_type = exec_response.raised

\* C28: arguments that do not satisfy the declared parameters (a required
\* one missing, a wrong primitive type, a value outside the enum) never
\* reach the handler and are answered with an invalid-params or validation
\* error.
C28_ValidatedBeforeHandler ==
    /\ \A c \in BagToSet(calls) :
          Conforms(Get(_tools, c.tool_name), c.arguments)
    /\ (exec_response.op = "execute"
           /\ Get(_tools, exec_response.tool_name) # NoTool
           /\ ~Conforms(Get(_tools, exec_response.tool_name),
                        exec_response.arguments))
       => /\ ~exec_response.invoked
          /\ exec_response.code \in {INVALID_PARAMS, VALIDATION_ERROR}

\* C29: a call whose handler does not return within the deadline is
\* eventually answered with the timeout error -32006.
C29_DeadlineTimeout ==
    (\E c \in BagToSet(calls) : c.behaviour = "hang")
        ~> (exec_response.op = "execute" /\ exec_response.code = TIMEOUT_ERROR)

\* C30: register raises for a name already registered and leaves the
\* registry as it was; every name has one entry, that of its first
\* registration, and the listing is in registration order.
C30_RegisterRejectsDuplicates ==
    /\ [][reg_event'.op = "register" =>
            IF reg_event'.tool.name \in Names(_tools)
            THEN reg_event'.raised = "ValueError" /\ _tools' = _tools
            ELSE reg_event'.raised = Null
                 /\ _tools' = Append(_tools, reg_event'.tool)]_vars
    /\ [](/\ Cardinality(Names(_tools)) = Len(_tools)
          /\ get_all = first_registered
          /\ reg_event.op = "list" => reg_event.listed = first_registered)

\* C30 witness: a second definition of notify_client was refused, after
\* another tool was registered; the first definition is the one listed
C30_Witness ==
    /\ reg_event.op = "register"
    /\ reg_event.raised = "ValueError"
    /\ reg_event.tool = MCPTool("notify_client", "handler_2", FALSE)
    /\ get_all = <<MCPTool("notify_client", "handler_1", TRUE),
                   MCPTool("glpi_get_ticket", "handler_1", TRUE)>>

(***************************************************************************)
(* WorkflowContext.log_tool_call (workflows/core/context.py): the audit    *)
(* trail of a run.  An entry is modelled by its "arguments" member, the    *)
(* result of _redact_sensitive on the arguments of the call.               *)
(***************************************************************************)
\* the local key set of _redact_sensitive
sensitive_keys ==
    { <<"p","a","s","s","w","o","r","d">>,
      <<"s","e","c","r","e","t">>,
      <<"t","o","k","e","n">>,
      <<"a","p","i","_","k","e","y">>,
      <<"a","p","i","k","e","y">> }

\* WorkflowContext._redact_sensitive: exact match of key.lower(), recursion
\* into dict values only
RECURSIVE _redact_sensitive(_)
_redact_sensitive(data) ==
    Map([key \in DOMAIN data.v |->
            LET value == data.v[key]
            IN  IF Lower(key) \in sensitive_keys THEN REDACTED_VALUE
                ELSE IF IsDict(value) THEN _redact_sensitive(value)
                ELSE value])

AuditIdle == tools_called = <<>>

AuditInit == tools_called = <<>>

\* ctx.log_tool_call(tool_name, arguments, ...)
log_tool_call(arguments) ==
    /\ Len(tools_called) < MaxEntries
    /\ tools_called' = Append(tools_called, _redact_sensitive(arguments))
    /\ UNCHANGED not_au_vars

\* a run starts with a fresh context
AuditNewContext ==
    /\ tools_called # <<>>
    /\ tools_called' = <<>>
    /\ UNCHANGED not_au_vars

AuditNext ==
    \/ \E arguments \in ArgTrees : log_tool_call(arguments)
    \/ AuditNewContext

\* C34: in every audit entry of tools_called, every field whose name matches
\* the central sensitive set, at any depth, holds "[REDACTED]".
C34_AuditRedacted ==
    \A i \in 1..Len(tools_called) : FullyRedacted(tools_called[i])

(***************************************************************************)
(* Overlapping runs of one workflow instance (workflows/core/base.py).     *)
(* run() creates a context, stores it in the attribute _current_context    *)
(* of the instance and clears the attribute when it ends; call_mcp logs    *)
(* into the context it is given or, without one, into the attribute as it  *)
(* stands when call_mcp starts.  A run is a coroutine: other runs of the   *)
(* instance interleave at its awaits.  An audit entry is the pair of the   *)
(* run that made the call and the rank of the call in that run.            *)
(***************************************************************************)
RunIds == 1..MaxRuns

NoContext == 0
NoCall == [context |-> NoContext, n |-> 0]

OverlapIdle ==
    /\ _current_context = NoContext
    /\ ov_pc = <<>>
    /\ ov_call = <<>>
    /\ ov_made = <<>>
    /\ contexts = <<>>

OverlapInit ==
    /\ _current_context = NoContext
    /\ ov_pc = [r \in RunIds |-> "idle"]
    /\ ov_call = [r \in RunIds |-> NoCall]
    /\ ov_made = [r \in RunIds |-> 0]
    /\ contexts = [r \in RunIds |-> <<>>]

\* run: ctx = WorkflowContext(...); self._current_context = ctx
OvRunStart(r) ==
    /\ ov_pc[r] = "idle"
    /\ ov_pc' = [ov_pc EXCEPT ![r] = "running"]
    /\ _current_context' = r
    /\ UNCHANGED <<ov_call, ov_made, contexts, not_ov_vars>>

\* call_mcp up to "await self.mcp.call": context = ctx or
\* self._current_context; with_ctx tells whether the caller passed its ctx
call_mcp(r, with_ctx) ==
    /\ ov_pc[r] = "running"
    /\ ov_call[r] = NoCall
    /\ ov_made[r] < MaxCallsPerRun
    /\ ov_made' = [ov_made EXCEPT ![r] = @ + 1]
    /\ ov_call' = [ov_call EXCEPT ![r] =
                      [context |-> IF with_ctx THEN r ELSE _current_context,
                       n |-> ov_made[r] + 1]]
    /\ UNCHANGED <<_current_context, ov_pc, contexts, not_ov_vars>>

\* call_mcp after the await, result or exception: "if context:
\* context.log_tool_call(...)"
call_mcp_log(r) ==
    LET context == ov_call[r].context
    IN  /\ ov_call[r] # NoCall
        /\ contexts' = IF context # NoContext
                       THEN [contexts EXCEPT ![context] =
                                Append(@, <<r, ov_call[r].n>>)]
                       ELSE contexts
        /\ ov_call' = [ov_call EXCEPT ![r] = NoCall]
        /\ UNCHANGED <<_current_context, ov_pc, ov_made, not_ov_vars>>

\* run: "finally: self._current_context = None"
OvRunEnd(r) ==
    /\ ov_pc[r] = "running"
    /\ ov_call[r] = NoCall
    /\ ov_pc' = [ov_pc EXCEPT ![r] = "done"]
    /\ _current_context' = NoContext
    /\ UNCHANGED <<ov_call, ov_made, contexts, not_ov_vars>>

OverlapNext ==
    \/ \E r \in RunIds : OvRunStart(r)
    \/ \E r \in RunIds, with_ctx \in BOOLEAN : call_mcp(r, with_ctx)
    \/ \E r \in RunIds : call_mcp_log(r)
    \/ \E r \in RunIds : OvRunEnd(r)

\* the calls of run r whose call_mcp has completed
OvCompleted(r) == ov_made[r] - (IF ov_call[r] # NoCall THEN 1 ELSE 0)

\* C35: the context of each run holds the completed tool calls of that run,
\* in program order, and nothing else.
C35_AuditPerRun ==
    \A r \in RunIds :
        contexts[r] = [i \in 1..OvCompleted(r) |-> <<r, i>>]

(***************************************************************************)
(* RedisClient.acquire_lock and release_lock                               *)
(* (workflows/core/redis_client.py) on one lock name, called by several    *)
(* clients.  acquire_lock is SET key value EX ttl NX, release_lock is DEL  *)
(* key; set and delete answer False when the connection fails.  The setter *)
(* of the key is kept for the properties: the code stores the same value   *)
(* "locked" for every client.                                              *)
(***************************************************************************)
Clients == 1..MaxClients
LockTtls == 1..MaxLockTtl

NoLock == [expires |-> NoTime, setter |-> 0]
NoLockEvent == [call |-> "none", client |-> 0, answer |-> FALSE]

LockIdle ==
    /\ lock = NoLock
    /\ lk_now = 0
    /\ held = <<>>
    /\ lk_event = NoLockEvent

LockInit ==
    /\ lock = NoLock
    /\ lk_now = 0
    /\ held = [c \in Clients |-> NoTime]
    /\ lk_event = NoLockEvent

\* acquire_lock(lock_name, ttl_seconds): self.set(key, value, ex=ttl, nx=True)
acquire_lock(c, ttl_seconds, redis_ok) ==
    LET acquired == redis_ok /\ lock = NoLock
    IN  /\ lock' = IF acquired
                   THEN [expires |-> lk_now + ttl_seconds, setter |-> c]
                   ELSE lock
        /\ held' = IF acquired
                   THEN [held EXCEPT ![c] = lk_now + ttl_seconds]
                   ELSE held
        /\ lk_event' = [call |-> "acquire_lock", client |-> c,
                        answer |-> acquired]
        /\ UNCHANGED <<lk_now, not_lk_vars>>

\* release_lock(lock_name): self.delete(key); a client releases after an
\* acquire_lock that answered True
release_lock(c, redis_ok) ==
    /\ held[c] # NoTime
    /\ lock' = IF redis_ok THEN NoLock ELSE lock
    /\ held' = [held EXCEPT ![c] = NoTime]
    /\ lk_event' = [call |-> "release_lock", client |-> c,
                    answer |-> redis_ok /\ lock # NoLock]
    /\ UNCHANGED <<lk_now, not_lk_vars>>

\* time passes; Redis drops the key at its expiry
LockTick ==
    /\ lk_now < MaxLockTime
    /\ lk_now' = lk_now + 1
    /\ lock' = IF lock # NoLock /\ lock.expires <= lk_now + 1
               THEN NoLock ELSE lock
    /\ lk_event' = NoLockEvent
    /\ UNCHANGED <<held, not_lk_vars>>

LockNext ==
    \/ \E c \in Clients, ttl_seconds \in LockTtls, redis_ok \in BOOLEAN :
          acquire_lock(c, ttl_seconds, redis_ok)
    \/ \E c \in Clients, redis_ok \in BOOLEAN : release_lock(c, redis_ok)
    \/ LockTick

\* the clients between a successful acquire_lock and their release_lock or
\* the expiry of the TTL they asked for
LockHolders == { c \in Clients : held[c] # NoTime /\ lk_now < held[c] }

\* C38: at most one client holds the lock at any time, and a release_lock of
\* a client whose own lock has expired leaves the lock another client holds.
C38_MutualExclusion ==
    /\ [](Cardinality(LockHolders) <= 1)
    /\ [][\A c \in Clients :
            (/\ lk_event'.call = "release_lock"
             /\ lk_event'.client = c
             /\ held[c] # NoTime
             /\ held[c] <= lk_now
             /\ lock # NoLock
             /\ lock.setter # c)
            => lock' = lock]_vars

(***************************************************************************)
(* Workflow-side SafeguardService (workflows/safeguard/workflow.py): the   *)
(* approvals kept in Redis, one JSON value per request under               *)
(* safeguard:request:<id> and the ids of the pending ones in the set       *)
(* safeguard:pending.  The model follows one request.  Every call of the   *)
(* service is a coroutine, split at its awaits on Redis and on the MCP     *)
(* client; each call works on the copy of the request it read.  Time is    *)
(* counted in units of 12 hours.                                           *)
(***************************************************************************)
\* _store_request: the key outlives expires_at by 86400 seconds
REQUEST_RETENTION == 2

\* expires_in_minutes of CreateApprovalRequest: 720 or 1440
ExpiresIn == {1, 2}

RequestId == "id"

NoStored == [status |-> "absent"]

\* the fields of ApprovalRequest the service branches on or writes
StoredRequest(status, expires_at, execution) ==
    [status |-> status, expires_at |-> expires_at, execution |-> execution,
     key_expires |-> expires_at + REQUEST_RETENTION]

NoSgEvent == [op |-> "none", ok |-> FALSE]

\* a call in flight: its next await and its local variable request
ServiceCall(op, pc, status, expires_at, execution) ==
    [op |-> op, pc |-> pc, status |-> status, expires_at |-> expires_at,
     execution |-> execution]

SgCanStart == BagCardinality(sg_calls) < MaxServiceCalls
SgStart(c) == sg_calls (+) SetToBag({c})
SgStep(c, c2) == (sg_calls (-) SetToBag({c})) (+) SetToBag({c2})
SgFinish(c) == sg_calls (-) SetToBag({c})

\* ApprovalRequest.is_expired of a request read at this instant
is_expired(expires_at) == sg_now > expires_at

\* ApprovalRequest.can_be_approved
can_be_approved(request) ==
    request.status = "pending" /\ ~is_expired(request.expires_at)

ServiceIdle ==
    /\ sg_mcp = FALSE
    /\ sg_created = FALSE
    /\ sg_request = NoStored
    /\ sg_pending = {}
    /\ sg_now = 0
    /\ sg_calls = EmptyBag
    /\ sg_event = NoSgEvent
    /\ sg_executed = 0
    /\ sg_rejected = FALSE

ServiceInit ==
    /\ sg_mcp \in BOOLEAN
    /\ sg_created = FALSE
    /\ sg_request = NoStored
    /\ sg_pending = {}
    /\ sg_now = 0
    /\ sg_calls = EmptyBag
    /\ sg_event = NoSgEvent
    /\ sg_executed = 0
    /\ sg_rejected = FALSE

\* create_request: a new ApprovalRequest, then _store_request (setex and,
\* the status being pending, sadd).  The id is made by the call and known to
\* no other caller before it returns.
create_request(expires_in) ==
    /\ ~sg_created
    /\ sg_created' = TRUE
    /\ sg_request' = StoredRequest("pending", sg_now + expires_in, "none")
    /\ sg_pending' = sg_pending \cup {RequestId}
    /\ sg_event' = [op |-> "create_request", ok |-> TRUE]
    /\ UNCHANGED <<sg_mcp, sg_now, sg_calls, sg_executed, sg_rejected,
                   not_sg_vars>>

\* approve up to "await self.mcp.call": get_request, the two checks and the
\* update of the local request
SgApprove ==
    /\ sg_created
    /\ SgCanStart
    /\ IF sg_request = NoStored \/ ~can_be_approved(sg_request)
       THEN /\ sg_event' = [op |-> "approve", ok |-> FALSE]
            /\ UNCHANGED sg_calls
       ELSE /\ sg_event' = NoSgEvent
            /\ sg_calls' = SgStart(ServiceCall("approve",
                                   IF sg_mcp THEN "call" ELSE "store",
                                   "approved", sg_request.expires_at, "none"))
    /\ UNCHANGED <<sg_mcp, sg_created, sg_request, sg_pending, sg_now,
                   sg_executed, sg_rejected, not_sg_vars>>

\* approve: execution_result = await self.mcp.call(tool_name, arguments),
\* or the exception it raises
SgApproveCall(c, call_ok) ==
    /\ c.pc = "call"
    /\ sg_executed' = Min(sg_executed + 1, MaxServiceCalls + 1)
    /\ sg_calls' = SgStep(c, [c EXCEPT !.pc = "store",
                                 !.execution = IF call_ok THEN "result"
                                                          ELSE "error"])
    /\ sg_event' = NoSgEvent
    /\ UNCHANGED <<sg_mcp, sg_created, sg_request, sg_pending, sg_now,
                   sg_rejected, not_sg_vars>>

\* reject up to its first write: get_request, the check and the update of
\* the local request
SgReject ==
    /\ sg_created
    /\ SgCanStart
    /\ IF sg_request = NoStored \/ sg_request.status # "pending"
       THEN /\ sg_event' = [op |-> "reject", ok |-> FALSE]
            /\ UNCHANGED sg_calls
       ELSE /\ sg_event' = NoSgEvent
            /\ sg_calls' = SgStart(ServiceCall("reject", "store", "rejected",
                                   sg_request.expires_at, "none"))
    /\ UNCHANGED <<sg_mcp, sg_created, sg_request, sg_pending, sg_now,
                   sg_executed, sg_rejected, not_sg_vars>>

\* cleanup_expired / list_pending: pending_ids = await smembers(KEY_PENDING)
SgScan(op) ==
    /\ SgCanStart
    /\ IF RequestId \in sg_pending
       THEN /\ sg_calls' = SgStart(ServiceCall(op, "get", "none", 0, "none"))
            /\ sg_event' = NoSgEvent
       ELSE /\ sg_event' = [op |-> op, ok |-> TRUE]
            /\ UNCHANGED sg_calls
    /\ UNCHANGED <<sg_mcp, sg_created, sg_request, sg_pending, sg_now,
                   sg_executed, sg_rejected, not_sg_vars>>

\* cleanup_expired / list_pending: request = await self.get_request(id);
\* "if request and request.is_expired()" leads to _mark_expired
SgScanGet(c) ==
    /\ c.pc = "get"
    /\ IF sg_request # NoStored /\ is_expired(sg_request.expires_at)
       THEN /\ sg_calls' = SgStep(c, ServiceCall(c.op, "store", "expired",
                                   sg_request.expires_at,
                                   sg_request.execution))
            /\ sg_event' = NoSgEvent
       ELSE /\ sg_calls' = SgFinish(c)
            /\ sg_event' = [op |-> c.op, ok |-> TRUE]
    /\ UNCHANGED <<sg_mcp, sg_created, sg_request, sg_pending, sg_now,
                   sg_executed, sg_rejected, not_sg_vars>>

\* _store_request of a resolved request: setex(key, ttl, json); no sadd, the
\* status being no longer pending
_store_request(c) ==
    /\ c.pc = "store"
    /\ sg_request' = StoredRequest(c.status, c.expires_at, c.execution)
    /\ sg_calls' = SgStep(c, [c EXCEPT !.pc = "remove"])
    /\ sg_event' = NoSgEvent
    /\ UNCHANGED <<sg_mcp, sg_created, sg_pending, sg_now, sg_executed,
                   sg_rejected, not_sg_vars>>

\* _remove_from_pending: srem(KEY_PENDING, id); the call then returns
_remove_from_pending(c) ==
    /\ c.pc = "remove"
    /\ sg_pending' = sg_pending \ {RequestId}
    /\ sg_calls' = SgFinish(c)
    /\ sg_event' = [op |-> c.op, ok |-> TRUE]
    /\ sg_rejected' = (sg_rejected \/ c.op = "reject")
    /\ UNCHANGED <<sg_mcp, sg_created, sg_request, sg_now, sg_executed,
                   not_sg_vars>>

\* time passes; Redis drops the key of the request at the end of its TTL
SgTick ==
    /\ sg_now < MaxServiceTime
    /\ sg_now' = sg_now + 1
    /\ sg_request' = IF sg_request # NoStored
                        /\ sg_request.key_expires <= sg_now + 1
                     THEN NoStored ELSE sg_request
    /\ sg_event' = NoSgEvent
    /\ UNCHANGED <<sg_mcp, sg_created, sg_pending, sg_calls, sg_executed,
                   sg_rejected, not_sg_vars>>

ServiceNext ==
    \/ \E expires_in \in ExpiresIn : create_request(expires_in)
    \/ SgApprove
    \/ \E c \in BagToSet(sg_calls), call_ok \in BOOLEAN : SgApproveCall(c, call_ok)
    \/ SgReject
    \/ \E op \in {"cleanup_expired", "list_pending"} : SgScan(op)
    \/ \E c \in BagToSet(sg_calls) : SgScanGet(c)
    \/ \E c \in BagToSet(sg_calls) : _store_request(c)
    \/ \E c \in BagToSet(sg_calls) : _remove_from_pending(c)
    \/ SgTick

InitSecrets == SecretsInit /\ GateIdle /\ ServerIdle /\ ClientIdle /\ HealthIdle /\ RunIdle /\ StartupIdle /\ RegistryIdle /\ AuditIdle /\ OverlapIdle /\ LockIdle /\ ServiceIdle

SpecSecrets == InitSecrets /\ [][SecretsNext]_vars

InitGate == GateInit /\ SecretsIdle /\ ServerIdle /\ ClientIdle /\ HealthIdle /\ RunIdle /\ StartupIdle /\ RegistryIdle /\ AuditIdle /\ OverlapIdle /\ LockIdle /\ ServiceIdle

SpecGate == InitGate /\ [][GateNext]_vars

Init == ServerInit /\ SecretsIdle /\ GateIdle /\ ClientIdle /\ HealthIdle /\ RunIdle /\ StartupIdle /\ RegistryIdle /\ AuditIdle /\ OverlapIdle /\ LockIdle /\ ServiceIdle

Spec == Init /\ [][ServerNext]_vars

InitCalls == CallsInit /\ SecretsIdle /\ GateIdle /\ ClientIdle /\ HealthIdle /\ RunIdle /\ StartupIdle /\ RegistryIdle /\ AuditIdle /\ OverlapIdle /\ LockIdle /\ ServiceIdle

SpecCalls == InitCalls /\ [][CallsNext]_vars

InitClient == ClientInit /\ SecretsIdle /\ GateIdle /\ ServerIdle /\ HealthIdle /\ RunIdle /\ StartupIdle /\ RegistryIdle /\ AuditIdle /\ OverlapIdle /\ LockIdle /\ ServiceIdle

\* the event loop runs the coroutine: a POST is answered or times out and a
\* sleep ends
SpecClient == InitClient /\ [][ClientNext]_vars /\ WF_vars(ClientNext)

InitHealth == HealthInit /\ SecretsIdle /\ GateIdle /\ ServerIdle /\ ClientIdle /\ RunIdle /\ StartupIdle /\ RegistryIdle /\ AuditIdle /\ OverlapIdle /\ LockIdle /\ ServiceIdle

SpecHealth == InitHealth /\ [][HealthNext]_vars

InitRun == RunInit /\ SecretsIdle /\ GateIdle /\ ServerIdle /\ ClientIdle /\ HealthIdle /\ StartupIdle /\ RegistryIdle /\ AuditIdle /\ OverlapIdle /\ LockIdle /\ ServiceIdle

SpecRun == InitRun /\ [][RunNext]_vars

InitStartup == StartupInit /\ SecretsIdle /\ GateIdle /\ ServerIdle /\ ClientIdle /\ HealthIdle /\ RunIdle /\ RegistryIdle /\ AuditIdle /\ OverlapIdle /\ LockIdle /\ ServiceIdle

SpecStartup == InitStartup /\ [][StartupNext]_vars

InitRegister == RegisterInit /\ SecretsIdle /\ GateIdle /\ ServerIdle /\ ClientIdle /\ HealthIdle /\ RunIdle /\ StartupIdle /\ AuditIdle /\ OverlapIdle /\ LockIdle /\ ServiceIdle

SpecRegister == InitRegister /\ [][RegisterNext]_vars

InitExecute == ExecuteInit /\ SecretsIdle /\ GateIdle /\ ServerIdle /\ ClientIdle /\ HealthIdle /\ RunIdle /\ StartupIdle /\ AuditIdle /\ OverlapIdle /\ LockIdle /\ ServiceIdle

\* the event loop resumes every handler that returns or raises
SpecExecute == InitExecute /\ [][ExecuteNext]_vars /\ WF_vars(ExecuteNext)

InitAudit == AuditInit /\ SecretsIdle /\ GateIdle /\ ServerIdle /\ ClientIdle /\ HealthIdle /\ RunIdle /\ StartupIdle /\ RegistryIdle /\ OverlapIdle /\ LockIdle /\ ServiceIdle

SpecAudit == InitAudit /\ [][AuditNext]_vars

InitOverlap == OverlapInit /\ SecretsIdle /\ GateIdle /\ ServerIdle /\ ClientIdle /\ HealthIdle /\ RunIdle /\ StartupIdle /\ RegistryIdle /\ AuditIdle /\ LockIdle /\ ServiceIdle

SpecOverlap == InitOverlap /\ [][OverlapNext]_vars

InitLock == LockInit /\ SecretsIdle /\ GateIdle /\ ServerIdle /\ ClientIdle /\ HealthIdle /\ RunIdle /\ StartupIdle /\ RegistryIdle /\ AuditIdle /\ OverlapIdle /\ ServiceIdle

SpecLock == InitLock /\ [][LockNext]_vars

InitService == ServiceInit /\ SecretsIdle /\ GateIdle /\ ServerIdle /\ ClientIdle /\ HealthIdle /\ RunIdle /\ StartupIdle /\ RegistryIdle /\ AuditIdle /\ OverlapIdle /\ LockIdle

SpecService == InitService /\ [][ServiceNext]_vars

=============================================================================
